---- MODULE Spec2Model ----
(***************************************************************************)
(* MedicoreX hospital management back end: the relational store (patients, *)
(* doctors, appointments, bills, bill items, audit log) and the REST       *)
(* handlers that read and write it.  Every handler is one action; the      *)
(* variable `last' holds the request handled last and its HTTP status.     *)
(*                                                                         *)
(* Ids are modelled by their numeric suffix (A0003 is 3), dates and times  *)
(* by small integers, money by integer hundredths (cents).  A payload key  *)
(* that is absent from the JSON body is 0 (ids, dates, times) or "absent". *)
(***************************************************************************)
EXTENDS Integers, Sequences, FiniteSets, TLC

VARIABLES patients, doctors, appointments, bills, bill_items, audit, last, reqs

vars == <<patients, doctors, appointments, bills, bill_items, audit, last, reqs>>

----------------------------------------------------------------------------
(* Bounds of the model                                                     *)

MaxPatients == 2
MaxDoctors == 2
MaxAppointments == 2
MaxBills == 1
MaxAudit == 6
MaxLog == 5
NumDates == 2
NumTimes == 2

(* Program constants                                                       *)
IdPad == 4

PatientIds == 1..(MaxPatients + 1)
DoctorIds == 1..(MaxDoctors + 1)
AppointmentIds == 1..MaxAppointments
BillIds == 1..MaxBills
Dates == 1..NumDates
Times == 1..NumTimes
Phones == {1, 2}
Emails == {1, 2}

ActiveStatus == {"pending", "confirmed"}

Null == [null |-> TRUE]

----------------------------------------------------------------------------
(* Tables: a table is a function from the stored ids to the rows           *)

Put(table, id, row) ==
    [k \in (DOMAIN table) \cup {id} |-> IF k = id THEN row ELSE table[k]]

Remove(table, id) ==
    [k \in (DOMAIN table) \ {id} |-> table[k]]

EmptyTable == [k \in {} |-> Null]

----------------------------------------------------------------------------
(* Identifier generation: the row whose id string sorts last, its suffix   *)
(* parsed and incremented, re-padded with zfill(4).                        *)

RECURSIVE Digits(_)
Digits(n) == IF n < 10 THEN <<n>> ELSE Append(Digits(n \div 10), n % 10)

zfill(s, w) ==
    IF Len(s) >= w THEN s
    ELSE [i \in 1..w |-> IF i <= w - Len(s) THEN 0 ELSE s[i - (w - Len(s))]]

IdStr(n) == zfill(Digits(n), IdPad)

RECURSIVE StrLess(_, _)
StrLess(a, b) ==
    IF a = <<>> THEN b # <<>>
    ELSE IF b = <<>> THEN FALSE
    ELSE IF Head(a) # Head(b) THEN Head(a) < Head(b)
    ELSE StrLess(Tail(a), Tail(b))

LastId(ids) ==
    CHOOSE m \in ids : \A k \in ids : k = m \/ StrLess(IdStr(k), IdStr(m))

NewNum(ids) == IF ids = {} THEN 1 ELSE LastId(ids) + 1

----------------------------------------------------------------------------
(* Audit log                                                               *)

AuditLog_log_purging(log, action, entity_type, entity_id, old_data, new_data) ==
    Append(SelectSeq(log, LAMBDA e : ~(/\ action = "DELETE"
                                       /\ e.entity_type = entity_type
                                       /\ e.entity_id = entity_id)),
           [action |-> action, entity_type |-> entity_type,
            entity_id |-> entity_id, old_data |-> old_data,
            new_data |-> new_data])

AuditLog_log(log, action, entity_type, entity_id, old_data, new_data) ==
    Append(log, [action |-> action, entity_type |-> entity_type,
                 entity_id |-> entity_id, old_data |-> old_data,
                 new_data |-> new_data])

Response(op, id, code) == [op |-> op, id |-> id, code |-> code]

Rejected(op, id, code) ==
    /\ last' = Response(op, id, code)
    /\ UNCHANGED <<patients, doctors, appointments, bills, bill_items, audit, reqs>>

----------------------------------------------------------------------------
(* Patients                                                                *)

Patient_get_by_phone(phone) ==
    {p \in DOMAIN patients : patients[p].phone = phone}

create_patient(data) ==
    LET id == NewNum(DOMAIN patients)
        row == [phone |-> data.phone]
    IN  IF data.phone = 0
        THEN Rejected("create_patient", 0, 400)
        ELSE IF Patient_get_by_phone(data.phone) # {}
        THEN Rejected("create_patient", 0, 400)
        ELSE /\ id <= MaxPatients
             /\ Len(audit) < MaxAudit
             /\ patients' = Put(patients, id, row)
             /\ audit' = AuditLog_log(audit, "CREATE", "patient", id, Null, row)
             /\ last' = Response("create_patient", id, 201)
             /\ UNCHANGED <<doctors, appointments, bills, bill_items, reqs>>

Patient_update(row, data) ==
    [phone |-> IF data.phone # 0 THEN data.phone ELSE row.phone]

(* update_patient without the lookup of the new phone number *)
update_patient_unchecked(patient_id, data) ==
    IF patient_id \notin DOMAIN patients
    THEN Rejected("update_patient", patient_id, 404)
    ELSE LET updated == Patient_update(patients[patient_id], data)
         IN  /\ Len(audit) < MaxAudit
             /\ patients' = Put(patients, patient_id, updated)
             /\ audit' = AuditLog_log(audit, "UPDATE", "patient", patient_id,
                                      patients[patient_id], updated)
             /\ last' = Response("update_patient", patient_id, 200)
             /\ UNCHANGED <<doctors, appointments, bills, bill_items, reqs>>

update_patient(patient_id, data) ==
    IF patient_id \notin DOMAIN patients
    THEN Rejected("update_patient", patient_id, 404)
    ELSE IF /\ data.phone # 0
            /\ data.phone # patients[patient_id].phone
            /\ Patient_get_by_phone(data.phone) # {}
    THEN Rejected("update_patient", patient_id, 400)
    ELSE LET updated == Patient_update(patients[patient_id], data)
         IN  /\ Len(audit) < MaxAudit
             /\ patients' = Put(patients, patient_id, updated)
             /\ audit' = AuditLog_log(audit, "UPDATE", "patient", patient_id,
                                      patients[patient_id], updated)
             /\ last' = Response("update_patient", patient_id, 200)
             /\ UNCHANGED <<doctors, appointments, bills, bill_items, reqs>>

(* Patient.delete with the cascades of the relationships: the patient's  *)
(* appointments and bills, the bills of those appointments, their items    *)
Patient_delete_cascade(patient_id) ==
    LET gone_appts == {a \in DOMAIN appointments :
                          appointments[a].patient_id = patient_id}
        gone_bills == {b \in DOMAIN bills :
                          \/ bills[b].patient_id = patient_id
                          \/ bills[b].appointment_id \in gone_appts}
    IN  [appointments |-> [a \in (DOMAIN appointments) \ gone_appts |-> appointments[a]],
         bills |-> [b \in (DOMAIN bills) \ gone_bills |-> bills[b]],
         bill_items |-> [b \in (DOMAIN bill_items) \ gone_bills |-> bill_items[b]]]

(* delete_patient counting only the patient's appointments *)
delete_patient_ignoring_bills(patient_id) ==
    IF patient_id \notin DOMAIN patients
    THEN Rejected("delete_patient", patient_id, 404)
    ELSE LET n_appointments == Cardinality({a \in DOMAIN appointments :
                                   appointments[a].patient_id = patient_id})
             after == Patient_delete_cascade(patient_id)
         IN  IF n_appointments > 0
             THEN Rejected("delete_patient", patient_id, 400)
             ELSE /\ Len(audit) < MaxAudit
                  /\ patients' = Remove(patients, patient_id)
                  /\ appointments' = after.appointments
                  /\ bills' = after.bills
                  /\ bill_items' = after.bill_items
                  /\ audit' = AuditLog_log(audit, "DELETE", "patient", patient_id,
                                           patients[patient_id], Null)
                  /\ last' = Response("delete_patient", patient_id, 200)
                  /\ UNCHANGED <<doctors, reqs>>

delete_patient(patient_id) ==
    IF patient_id \notin DOMAIN patients
    THEN Rejected("delete_patient", patient_id, 404)
    ELSE LET n_appointments == Cardinality({a \in DOMAIN appointments :
                                   appointments[a].patient_id = patient_id})
             n_bills == Cardinality({b \in DOMAIN bills :
                                   bills[b].patient_id = patient_id})
             after == Patient_delete_cascade(patient_id)
         IN  IF n_appointments > 0 \/ n_bills > 0
             THEN Rejected("delete_patient", patient_id, 400)
             ELSE /\ Len(audit) < MaxAudit
                  /\ patients' = Remove(patients, patient_id)
                  /\ appointments' = after.appointments
                  /\ bills' = after.bills
                  /\ bill_items' = after.bill_items
                  /\ audit' = AuditLog_log(audit, "DELETE", "patient", patient_id,
                                           patients[patient_id], Null)
                  /\ last' = Response("delete_patient", patient_id, 200)
                  /\ UNCHANGED <<doctors, reqs>>

----------------------------------------------------------------------------
(* Doctors                                                                 *)

Doctor_get_by_email(email) ==
    {d \in DOMAIN doctors : doctors[d].email = email}

create_doctor(data) ==
    LET id == NewNum(DOMAIN doctors)
        row == [email |-> data.email,
                status |-> IF data.status = "absent" THEN "Active" ELSE data.status]
    IN  IF data.email = 0
        THEN Rejected("create_doctor", 0, 400)
        ELSE IF Doctor_get_by_email(data.email) # {}
        THEN Rejected("create_doctor", 0, 400)
        ELSE /\ id <= MaxDoctors
             /\ Len(audit) < MaxAudit
             /\ doctors' = Put(doctors, id, row)
             /\ audit' = AuditLog_log(audit, "CREATE", "doctor", id, Null, row)
             /\ last' = Response("create_doctor", id, 201)
             /\ UNCHANGED <<patients, appointments, bills, bill_items, reqs>>

Doctor_update(row, data) ==
    [email |-> IF data.email # 0 THEN data.email ELSE row.email,
     status |-> IF data.status # "absent" THEN data.status ELSE row.status]

update_doctor(doctor_id, data) ==
    IF doctor_id \notin DOMAIN doctors
    THEN Rejected("update_doctor", doctor_id, 404)
    ELSE IF /\ data.email # 0
            /\ data.email # doctors[doctor_id].email
            /\ Doctor_get_by_email(data.email) # {}
    THEN Rejected("update_doctor", doctor_id, 400)
    ELSE LET updated == Doctor_update(doctors[doctor_id], data)
         IN  /\ Len(audit) < MaxAudit
             /\ doctors' = Put(doctors, doctor_id, updated)
             /\ audit' = AuditLog_log(audit, "UPDATE", "doctor", doctor_id,
                                      doctors[doctor_id], updated)
             /\ last' = Response("update_doctor", doctor_id, 200)
             /\ UNCHANGED <<patients, appointments, bills, bill_items, reqs>>

DoctorStatuses == {"Active", "On Leave", "Inactive"}

(* update_doctor_status without its audit entry *)
update_doctor_status_unlogged(doctor_id, data) ==
    IF data.status = "absent"
    THEN Rejected("update_doctor_status", doctor_id, 400)
    ELSE IF data.status \notin DoctorStatuses
    THEN Rejected("update_doctor_status", doctor_id, 400)
    ELSE IF doctor_id \notin DOMAIN doctors
    THEN Rejected("update_doctor_status", doctor_id, 404)
    ELSE /\ Len(audit) < MaxAudit
         /\ doctors' = Put(doctors, doctor_id,
                           Doctor_update(doctors[doctor_id],
                                         [email |-> 0, status |-> data.status]))
         /\ last' = Response("update_doctor_status", doctor_id, 200)
         /\ UNCHANGED <<patients, appointments, bills, bill_items, audit, reqs>>

update_doctor_status(doctor_id, data) ==
    IF data.status = "absent"
    THEN Rejected("update_doctor_status", doctor_id, 400)
    ELSE IF data.status \notin DoctorStatuses
    THEN Rejected("update_doctor_status", doctor_id, 400)
    ELSE IF doctor_id \notin DOMAIN doctors
    THEN Rejected("update_doctor_status", doctor_id, 404)
    ELSE /\ Len(audit) < MaxAudit
         /\ doctors' = Put(doctors, doctor_id,
                           Doctor_update(doctors[doctor_id],
                                         [email |-> 0, status |-> data.status]))
         /\ audit' = AuditLog_log(audit, "UPDATE_STATUS", "doctor", doctor_id,
                                  [status |-> doctors[doctor_id].status],
                                  [status |-> data.status])
         /\ last' = Response("update_doctor_status", doctor_id, 200)
         /\ UNCHANGED <<patients, appointments, bills, bill_items, reqs>>

(* Doctor.delete with the cascades of the relationships: the doctor's    *)
(* appointments, the bills of those appointments, their items              *)
Doctor_delete_cascade(doctor_id) ==
    LET gone_appts == {a \in DOMAIN appointments :
                          appointments[a].doctor_id = doctor_id}
        gone_bills == {b \in DOMAIN bills : bills[b].appointment_id \in gone_appts}
    IN  [appointments |-> [a \in (DOMAIN appointments) \ gone_appts |-> appointments[a]],
         bills |-> [b \in (DOMAIN bills) \ gone_bills |-> bills[b]],
         bill_items |-> [b \in (DOMAIN bill_items) \ gone_bills |-> bill_items[b]]]

delete_doctor(doctor_id) ==
    IF doctor_id \notin DOMAIN doctors
    THEN Rejected("delete_doctor", doctor_id, 404)
    ELSE LET n_appointments == Cardinality({a \in DOMAIN appointments :
                                   appointments[a].doctor_id = doctor_id})
             after == Doctor_delete_cascade(doctor_id)
         IN  IF n_appointments > 0
             THEN Rejected("delete_doctor", doctor_id, 400)
             ELSE /\ Len(audit) < MaxAudit
                  /\ doctors' = Remove(doctors, doctor_id)
                  /\ appointments' = after.appointments
                  /\ bills' = after.bills
                  /\ bill_items' = after.bill_items
                  /\ audit' = AuditLog_log(audit, "DELETE", "doctor", doctor_id,
                                           doctors[doctor_id], Null)
                  /\ last' = Response("delete_doctor", doctor_id, 200)
                  /\ UNCHANGED <<patients, reqs>>

----------------------------------------------------------------------------
(* Appointments                                                            *)

(* the availability query without its status filter *)
Appointment_check_availability_any_status(appts, doctor_id, date, time) ==
    LET existing == {a \in DOMAIN appts :
                        /\ appts[a].doctor_id = doctor_id
                        /\ appts[a].date = date
                        /\ appts[a].time = time}
    IN  existing = {}

Appointment_check_availability(appts, doctor_id, date, time) ==
    LET existing == {a \in DOMAIN appts :
                        /\ appts[a].doctor_id = doctor_id
                        /\ appts[a].date = date
                        /\ appts[a].time = time
                        /\ appts[a].status \in {"pending", "confirmed"}}
    IN  existing = {}

(* Appointment.create leaving one id out after the last stored one *)
Appointment_create_skipping(ids, data) ==
    LET id == IF data.id = 0 THEN NewNum(ids) + 1 ELSE data.id
    IN  [id |-> id,
         row |-> [patient_id |-> data.patient_id,
                  doctor_id |-> data.doctor_id,
                  date |-> data.date,
                  time |-> data.time,
                  status |-> IF data.status = "absent" THEN "pending"
                             ELSE data.status]]

Appointment_create(ids, data) ==
    LET id == IF data.id = 0 THEN NewNum(ids) ELSE data.id
    IN  [id |-> id,
         row |-> [patient_id |-> data.patient_id,
                  doctor_id |-> data.doctor_id,
                  date |-> data.date,
                  time |-> data.time,
                  status |-> IF data.status = "absent" THEN "pending"
                             ELSE data.status]]

Appointment_update(row, data) ==
    [patient_id |-> row.patient_id,
     doctor_id |-> row.doctor_id,
     date |-> IF data.date # 0 THEN data.date ELSE row.date,
     time |-> IF data.time # 0 THEN data.time ELSE row.time,
     status |-> IF data.status # "absent" THEN data.status ELSE row.status]

create_appointment(data) ==
    LET new == Appointment_create(DOMAIN appointments, data)
    IN  IF data.patient_id = 0 \/ data.doctor_id = 0 \/ data.date = 0 \/ data.time = 0
        THEN Rejected("create_appointment", 0, 400)
        ELSE IF data.patient_id \notin DOMAIN patients
        THEN Rejected("create_appointment", 0, 404)
        ELSE IF data.doctor_id \notin DOMAIN doctors
        THEN Rejected("create_appointment", 0, 404)
        ELSE IF doctors[data.doctor_id].status # "Active"
        THEN Rejected("create_appointment", 0, 400)
        ELSE IF ~Appointment_check_availability(appointments, data.doctor_id,
                                                data.date, data.time)
        THEN Rejected("create_appointment", 0, 400)
        ELSE IF new.id \in DOMAIN appointments
        THEN Rejected("create_appointment", 0, 500)
        ELSE /\ new.id <= MaxAppointments
             /\ Len(audit) < MaxAudit
             /\ appointments' = Put(appointments, new.id, new.row)
             /\ audit' = AuditLog_log(audit, "CREATE", "appointment", new.id,
                                      Null, new.row)
             /\ last' = Response("create_appointment", new.id, 201)
             /\ UNCHANGED <<patients, doctors, bills, bill_items, reqs>>

update_appointment_write_first(appointment_id, data) ==
    IF appointment_id \notin DOMAIN appointments
    THEN Rejected("update_appointment", appointment_id, 404)
    ELSE LET appointment == appointments[appointment_id]
             updated == Appointment_update(appointment, data)
         IN  IF /\ (data.date # 0 \/ data.time # 0 \/ data.doctor_id # 0)
                /\ ~Appointment_check_availability(
                       Put(appointments, appointment_id, updated),
                       updated.doctor_id, updated.date, updated.time)
             THEN /\ appointments' = Put(appointments, appointment_id, updated)
                  /\ last' = Response("update_appointment", appointment_id, 400)
                  /\ UNCHANGED <<patients, doctors, bills, bill_items, audit, reqs>>
             ELSE /\ Len(audit) < MaxAudit
                  /\ appointments' = Put(appointments, appointment_id, updated)
                  /\ audit' = AuditLog_log(audit, "UPDATE", "appointment",
                                           appointment_id, appointment, updated)
                  /\ last' = Response("update_appointment", appointment_id, 200)
                  /\ UNCHANGED <<patients, doctors, bills, bill_items, reqs>>

(* update_appointment with a check that leaves out the appointment itself *)
update_appointment_excluding_self(appointment_id, data) ==
    IF appointment_id \notin DOMAIN appointments
    THEN Rejected("update_appointment", appointment_id, 404)
    ELSE LET appointment == appointments[appointment_id]
             new_date == IF data.date # 0 THEN data.date ELSE appointment.date
             new_time == IF data.time # 0 THEN data.time ELSE appointment.time
             new_doctor == IF data.doctor_id # 0 THEN data.doctor_id
                           ELSE appointment.doctor_id
             updated == Appointment_update(appointment, data)
         IN  IF /\ (data.date # 0 \/ data.time # 0 \/ data.doctor_id # 0)
                /\ ~Appointment_check_availability(
                       Remove(appointments, appointment_id), new_doctor,
                       new_date, new_time)
             THEN Rejected("update_appointment", appointment_id, 400)
             ELSE /\ Len(audit) < MaxAudit
                  /\ appointments' = Put(appointments, appointment_id, updated)
                  /\ audit' = AuditLog_log(audit, "UPDATE", "appointment",
                                           appointment_id, appointment, updated)
                  /\ last' = Response("update_appointment", appointment_id, 200)
                  /\ UNCHANGED <<patients, doctors, bills, bill_items, reqs>>

update_appointment(appointment_id, data) ==
    IF appointment_id \notin DOMAIN appointments
    THEN Rejected("update_appointment", appointment_id, 404)
    ELSE LET appointment == appointments[appointment_id]
             new_date == IF data.date # 0 THEN data.date ELSE appointment.date
             new_time == IF data.time # 0 THEN data.time ELSE appointment.time
             new_doctor == IF data.doctor_id # 0 THEN data.doctor_id
                           ELSE appointment.doctor_id
             updated == Appointment_update(appointment, data)
         IN  IF /\ (data.date # 0 \/ data.time # 0 \/ data.doctor_id # 0)
                /\ ~Appointment_check_availability(appointments, new_doctor,
                                                   new_date, new_time)
             THEN Rejected("update_appointment", appointment_id, 400)
             ELSE /\ Len(audit) < MaxAudit
                  /\ appointments' = Put(appointments, appointment_id, updated)
                  /\ audit' = AuditLog_log(audit, "UPDATE", "appointment",
                                           appointment_id, appointment, updated)
                  /\ last' = Response("update_appointment", appointment_id, 200)
                  /\ UNCHANGED <<patients, doctors, bills, bill_items, reqs>>

(* delete_appointment without the check for bills, the bills left stored *)
delete_appointment_keeping_bills(appointment_id) ==
    IF appointment_id \notin DOMAIN appointments
    THEN Rejected("delete_appointment", appointment_id, 404)
    ELSE /\ Len(audit) < MaxAudit
         /\ appointments' = Remove(appointments, appointment_id)
         /\ audit' = AuditLog_log(audit, "DELETE", "appointment",
                                  appointment_id,
                                  appointments[appointment_id], Null)
         /\ last' = Response("delete_appointment", appointment_id, 200)
         /\ UNCHANGED <<patients, doctors, bills, bill_items, reqs>>

delete_appointment(appointment_id) ==
    IF appointment_id \notin DOMAIN appointments
    THEN Rejected("delete_appointment", appointment_id, 404)
    ELSE LET n == Cardinality({b \in DOMAIN bills :
                                 bills[b].appointment_id = appointment_id})
         IN  IF n > 0
             THEN Rejected("delete_appointment", appointment_id, 400)
             ELSE \* no bill references the appointment: the cascade to
                  \* its bills deletes nothing
                  /\ Len(audit) < MaxAudit
                  /\ appointments' = Remove(appointments, appointment_id)
                  /\ audit' = AuditLog_log(audit, "DELETE", "appointment",
                                           appointment_id,
                                           appointments[appointment_id], Null)
                  /\ last' = Response("delete_appointment", appointment_id, 200)
                  /\ UNCHANGED <<patients, doctors, bills, bill_items, reqs>>

SetStatus(appointment_id, status) ==
    Put(appointments, appointment_id,
        [appointments[appointment_id] EXCEPT !.status = status])

confirm_appointment(appointment_id) ==
    IF appointment_id \notin DOMAIN appointments
    THEN Rejected("confirm_appointment", appointment_id, 404)
    ELSE IF appointments[appointment_id].status = "confirmed"
    THEN Rejected("confirm_appointment", appointment_id, 400)
    ELSE IF appointments[appointment_id].status = "cancelled"
    THEN Rejected("confirm_appointment", appointment_id, 400)
    ELSE /\ Len(audit) < MaxAudit
         /\ appointments' = SetStatus(appointment_id, "confirmed")
         /\ audit' = AuditLog_log(audit, "CONFIRM", "appointment", appointment_id,
                                  [status |-> "pending"], [status |-> "confirmed"])
         /\ last' = Response("confirm_appointment", appointment_id, 200)
         /\ UNCHANGED <<patients, doctors, bills, bill_items, reqs>>

(* cancel without the guard on completed appointments *)
cancel_appointment_unguarded(appointment_id) ==
    IF appointment_id \notin DOMAIN appointments
    THEN Rejected("cancel_appointment", appointment_id, 404)
    ELSE IF appointments[appointment_id].status = "cancelled"
    THEN Rejected("cancel_appointment", appointment_id, 400)
    ELSE /\ Len(audit) < MaxAudit
         /\ appointments' = SetStatus(appointment_id, "cancelled")
         /\ audit' = AuditLog_log(audit, "CANCEL", "appointment", appointment_id,
                                  [status |-> "cancelled"], [status |-> "cancelled"])
         /\ last' = Response("cancel_appointment", appointment_id, 200)
         /\ UNCHANGED <<patients, doctors, bills, bill_items, reqs>>

cancel_appointment(appointment_id) ==
    IF appointment_id \notin DOMAIN appointments
    THEN Rejected("cancel_appointment", appointment_id, 404)
    ELSE IF appointments[appointment_id].status = "cancelled"
    THEN Rejected("cancel_appointment", appointment_id, 400)
    ELSE IF appointments[appointment_id].status = "completed"
    THEN Rejected("cancel_appointment", appointment_id, 400)
    ELSE /\ Len(audit) < MaxAudit
         /\ appointments' = SetStatus(appointment_id, "cancelled")
         /\ audit' = AuditLog_log(audit, "CANCEL", "appointment", appointment_id,
                                  [status |-> "cancelled"], [status |-> "cancelled"])
         /\ last' = Response("cancel_appointment", appointment_id, 200)
         /\ UNCHANGED <<patients, doctors, bills, bill_items, reqs>>

complete_appointment(appointment_id) ==
    IF appointment_id \notin DOMAIN appointments
    THEN Rejected("complete_appointment", appointment_id, 404)
    ELSE IF appointments[appointment_id].status = "completed"
    THEN Rejected("complete_appointment", appointment_id, 400)
    ELSE IF appointments[appointment_id].status = "cancelled"
    THEN Rejected("complete_appointment", appointment_id, 400)
    ELSE /\ Len(audit) < MaxAudit
         /\ appointments' = SetStatus(appointment_id, "completed")
         /\ audit' = AuditLog_log(audit, "COMPLETE", "appointment", appointment_id,
                                  [status |-> "completed"], [status |-> "completed"])
         /\ last' = Response("complete_appointment", appointment_id, 200)
         /\ UNCHANGED <<patients, doctors, bills, bill_items, reqs>>

----------------------------------------------------------------------------
(* create_appointment handled by concurrent workers.  The handler's reads  *)
(* (patient, doctor, availability, last id) are consistent reads of one    *)
(* transaction: they see the store as it was at the handler's first read.  *)
(* The insert follows later, with no lock and no unique constraint on the  *)
(* slot; only the primary key can make it fail.                            *)

Idle == [pc |-> "idle", data |-> Null, seen |-> {}, code |-> 0]

create_appointment_check(r, data) ==
    LET code == IF data.patient_id = 0 \/ data.doctor_id = 0
                   \/ data.date = 0 \/ data.time = 0 THEN 400
                ELSE IF data.patient_id \notin DOMAIN patients THEN 404
                ELSE IF data.doctor_id \notin DOMAIN doctors THEN 404
                ELSE IF doctors[data.doctor_id].status # "Active" THEN 400
                ELSE IF ~Appointment_check_availability(appointments,
                            data.doctor_id, data.date, data.time) THEN 400
                ELSE 0
    IN  /\ reqs[r].pc = "idle"
        /\ reqs' = [reqs EXCEPT ![r] =
                       [pc |-> IF code = 0 THEN "checked" ELSE "done",
                        data |-> data,
                        seen |-> DOMAIN appointments,
                        code |-> code]]
        /\ UNCHANGED <<patients, doctors, appointments, bills, bill_items,
                       audit, last>>

create_appointment_insert(r) ==
    LET new == Appointment_create(reqs[r].seen, reqs[r].data)
    IN  /\ reqs[r].pc = "checked"
        /\ IF new.id \in DOMAIN appointments
           THEN /\ reqs' = [reqs EXCEPT ![r].pc = "done", ![r].code = 500]
                /\ UNCHANGED <<appointments, audit>>
           ELSE /\ new.id <= MaxAppointments
                /\ Len(audit) < MaxAudit
                /\ appointments' = Put(appointments, new.id, new.row)
                /\ audit' = AuditLog_log(audit, "CREATE", "appointment", new.id,
                                         Null, new.row)
                /\ reqs' = [reqs EXCEPT ![r].pc = "done", ![r].code = 201]
        /\ UNCHANGED <<patients, doctors, bills, bill_items, last>>

----------------------------------------------------------------------------
(* Billing.  Money is held in cents; the columns are DECIMAL(10, 2), so a   *)
(* value written with more than two fraction digits is rounded to cents by  *)
(* the store (half away from zero).  A tax rate is held in hundredths of a  *)
(* percent, so that a stored tax amount of c cents read back as a rate is   *)
(* c hundredths of a percent.                                               *)

Abs(x) == IF x < 0 THEN 0 - x ELSE x

(* num / den rounded to the nearest integer, halves away from zero *)
Round2(num, den) ==
    LET q == (2 * Abs(num) + den) \div (2 * den)
    IN  IF num < 0 THEN 0 - q ELSE q

RECURSIVE SumAmounts(_)
SumAmounts(items) ==
    IF items = <<>> THEN 0 ELSE Head(items) + SumAmounts(Tail(items))

(* the totals with the tax taken on the subtotal before the discount *)
ComputeTotals_tax_on_subtotal(items, discount, tax_rate) ==
    LET subtotal == SumAmounts(items)
        tax_amount == subtotal * tax_rate
        total == (subtotal - discount) * 10000 + tax_amount
    IN  [subtotal |-> subtotal,
         discount |-> discount,
         tax |-> Round2(tax_amount, 10000),
         total_amount |-> Round2(total, 10000)]

(* subtotal, discount, tax amount and total as the columns hold them *)
ComputeTotals(items, discount, tax_rate) ==
    LET subtotal == SumAmounts(items)
        tax_amount == (subtotal - discount) * tax_rate
        total == (subtotal - discount) * 10000 + tax_amount
    IN  [subtotal |-> subtotal,
         discount |-> discount,
         tax |-> Round2(tax_amount, 10000),
         total_amount |-> Round2(total, 10000)]

Get(data, key, default) == IF key \in data.has THEN data[key] ELSE default

Bill_create(table, data, items_data) ==
    LET id == NewNum(DOMAIN table)
        t == ComputeTotals(items_data, Get(data, "discount", 0), Get(data, "tax", 0))
    IN  [id |-> id,
         row |-> [patient_id |-> data.patient_id,
                  appointment_id |-> Get(data, "appointment_id", 0),
                  subtotal |-> t.subtotal,
                  discount |-> t.discount,
                  tax |-> t.tax,
                  total_amount |-> t.total_amount,
                  status |-> Get(data, "status", "pending"),
                  payment_method |-> Get(data, "payment_method", "null"),
                  notes |-> Get(data, "notes", 0)],
         items |-> items_data]

(* the loop over the payload keys: every column named in the payload but   *)
(* id, created_at and patient_id takes the payload's value                 *)
Bill_setattrs(row, data) ==
    [patient_id |-> row.patient_id,
     appointment_id |-> Get(data, "appointment_id", row.appointment_id),
     subtotal |-> Get(data, "subtotal", row.subtotal),
     discount |-> Get(data, "discount", row.discount),
     tax |-> Get(data, "tax", row.tax),
     total_amount |-> Get(data, "total_amount", row.total_amount),
     status |-> Get(data, "status", row.status),
     payment_method |-> Get(data, "payment_method", row.payment_method),
     notes |-> Get(data, "notes", row.notes)]

(* Bill.update raises when the payload's "items" key holds item dicts: the *)
(* loop assigns them to the items relationship, which takes BillItem rows  *)
Bill_update_raises(data) == "items" \in data.has /\ data.items # <<>>

(* Bill.update adding the payload's items to the stored ones *)
Bill_update_appending(row, items, data) ==
    LET set == Bill_setattrs(row, data)
    IN  IF "items" \in data.has
        THEN LET t == ComputeTotals(data.items,
                                    Get(data, "discount", row.discount),
                                    Get(data, "tax", row.tax))
             IN  [row |-> [set EXCEPT !.subtotal = t.subtotal,
                                      !.discount = t.discount,
                                      !.tax = t.tax,
                                      !.total_amount = t.total_amount],
                  items |-> items \o data.items]
        ELSE [row |-> set, items |-> items]

(* Bill.update taking rate 0 when the payload has no tax key *)
Bill_update_rate_zero(row, items, data) ==
    LET set == Bill_setattrs(row, data)
    IN  IF "items" \in data.has
        THEN LET t == ComputeTotals(data.items,
                                    Get(data, "discount", row.discount),
                                    Get(data, "tax", 0))
             IN  [row |-> [set EXCEPT !.subtotal = t.subtotal,
                                      !.discount = t.discount,
                                      !.tax = t.tax,
                                      !.total_amount = t.total_amount],
                  items |-> data.items]
        ELSE [row |-> set, items |-> items]

Bill_update(row, items, data) ==
    LET set == Bill_setattrs(row, data)
    IN  IF "items" \in data.has
        THEN LET t == ComputeTotals(data.items,
                                    Get(data, "discount", row.discount),
                                    Get(data, "tax", row.tax))
             IN  [row |-> [set EXCEPT !.subtotal = t.subtotal,
                                      !.discount = t.discount,
                                      !.tax = t.tax,
                                      !.total_amount = t.total_amount],
                  items |-> data.items]
        ELSE [row |-> set, items |-> items]

Bill_to_dict(row, items) ==
    [patient_id |-> row.patient_id, appointment_id |-> row.appointment_id,
     subtotal |-> row.subtotal, discount |-> row.discount, tax |-> row.tax,
     total_amount |-> row.total_amount, status |-> row.status,
     payment_method |-> row.payment_method, notes |-> row.notes,
     items |-> items]

create_bill(data) ==
    LET new == Bill_create(bills, data, data.items)
    IN  IF data.patient_id = 0 \/ "items" \notin data.has \/ data.items = <<>>
        THEN Rejected("create_bill", 0, 400)
        ELSE IF data.patient_id \notin DOMAIN patients
        THEN Rejected("create_bill", 0, 404)
        ELSE IF /\ Get(data, "appointment_id", 0) # 0
                /\ data.appointment_id \notin DOMAIN appointments
        THEN Rejected("create_bill", 0, 404)
        ELSE /\ new.id <= MaxBills
             /\ Len(audit) < MaxAudit
             /\ bills' = Put(bills, new.id, new.row)
             /\ bill_items' = Put(bill_items, new.id, new.items)
             /\ audit' = AuditLog_log(audit, "CREATE", "bill", new.id, Null,
                                      Bill_to_dict(new.row, new.items))
             /\ last' = Response("create_bill", new.id, 201)
             /\ UNCHANGED <<patients, doctors, appointments, reqs>>

(* update_bill without the guard on paid bills *)
update_bill_paid_unguarded(bill_id, data) ==
    IF bill_id \notin DOMAIN bills
    THEN Rejected("update_bill", bill_id, 404)
    ELSE IF /\ Get(data, "appointment_id", 0) # 0
            /\ data.appointment_id \notin DOMAIN appointments
    THEN Rejected("update_bill", bill_id, 404)
    ELSE IF Bill_update_raises(data)
    THEN Rejected("update_bill", bill_id, 500)
    ELSE LET new == Bill_update(bills[bill_id], bill_items[bill_id], data)
         IN  /\ Len(audit) < MaxAudit
             /\ bills' = Put(bills, bill_id, new.row)
             /\ bill_items' = Put(bill_items, bill_id, new.items)
             /\ audit' = AuditLog_log(audit, "UPDATE", "bill", bill_id,
                                      Bill_to_dict(bills[bill_id], bill_items[bill_id]),
                                      Bill_to_dict(new.row, new.items))
             /\ last' = Response("update_bill", bill_id, 200)
             /\ UNCHANGED <<patients, doctors, appointments, reqs>>

update_bill(bill_id, data) ==
    IF bill_id \notin DOMAIN bills
    THEN Rejected("update_bill", bill_id, 404)
    ELSE IF bills[bill_id].status = "paid"
    THEN Rejected("update_bill", bill_id, 400)
    ELSE IF /\ Get(data, "appointment_id", 0) # 0
            /\ data.appointment_id \notin DOMAIN appointments
    THEN Rejected("update_bill", bill_id, 404)
    ELSE IF Bill_update_raises(data)
    THEN Rejected("update_bill", bill_id, 500)
    ELSE LET new == Bill_update(bills[bill_id], bill_items[bill_id], data)
         IN  /\ Len(audit) < MaxAudit
             /\ bills' = Put(bills, bill_id, new.row)
             /\ bill_items' = Put(bill_items, bill_id, new.items)
             /\ audit' = AuditLog_log(audit, "UPDATE", "bill", bill_id,
                                      Bill_to_dict(bills[bill_id], bill_items[bill_id]),
                                      Bill_to_dict(new.row, new.items))
             /\ last' = Response("update_bill", bill_id, 200)
             /\ UNCHANGED <<patients, doctors, appointments, reqs>>

delete_bill(bill_id) ==
    IF bill_id \notin DOMAIN bills
    THEN Rejected("delete_bill", bill_id, 404)
    ELSE IF bills[bill_id].status = "paid"
    THEN Rejected("delete_bill", bill_id, 400)
    ELSE /\ Len(audit) < MaxAudit
         /\ bills' = Remove(bills, bill_id)
         /\ bill_items' = Remove(bill_items, bill_id)
         /\ audit' = AuditLog_log(audit, "DELETE", "bill", bill_id,
                                  Bill_to_dict(bills[bill_id], bill_items[bill_id]),
                                  Null)
         /\ last' = Response("delete_bill", bill_id, 200)
         /\ UNCHANGED <<patients, doctors, appointments, reqs>>

PaymentMethods == {"cash", "card", "upi", "insurance"}

(* mark_as_paid recording the method and leaving the status *)
Bill_mark_as_paid_method_only(row, payment_method) ==
    [row EXCEPT !.payment_method = IF payment_method # "null" THEN payment_method
                                   ELSE row.payment_method]

Bill_mark_as_paid(row, payment_method) ==
    [row EXCEPT !.status = "paid",
                !.payment_method = IF payment_method # "null" THEN payment_method
                                   ELSE row.payment_method]

(* mark_bill_as_paid without the validation of the payment method *)
mark_bill_as_paid_any_method(bill_id, payment_method) ==
    IF bill_id \notin DOMAIN bills
    THEN Rejected("mark_bill_as_paid", bill_id, 404)
    ELSE IF bills[bill_id].status = "paid"
    THEN Rejected("mark_bill_as_paid", bill_id, 400)
    ELSE /\ Len(audit) < MaxAudit
         /\ bills' = Put(bills, bill_id,
                         Bill_mark_as_paid(bills[bill_id], payment_method))
         /\ audit' = AuditLog_log(audit, "MARK_PAID", "bill", bill_id,
                                  [status |-> bills[bill_id].status],
                                  [status |-> "paid",
                                   payment_method |-> payment_method])
         /\ last' = Response("mark_bill_as_paid", bill_id, 200)
         /\ UNCHANGED <<patients, doctors, appointments, bill_items, reqs>>

mark_bill_as_paid(bill_id, payment_method) ==
    IF bill_id \notin DOMAIN bills
    THEN Rejected("mark_bill_as_paid", bill_id, 404)
    ELSE IF bills[bill_id].status = "paid"
    THEN Rejected("mark_bill_as_paid", bill_id, 400)
    ELSE IF payment_method # "null" /\ payment_method \notin PaymentMethods
    THEN Rejected("mark_bill_as_paid", bill_id, 400)
    ELSE /\ Len(audit) < MaxAudit
         /\ bills' = Put(bills, bill_id,
                         Bill_mark_as_paid(bills[bill_id], payment_method))
         /\ audit' = AuditLog_log(audit, "MARK_PAID", "bill", bill_id,
                                  [status |-> bills[bill_id].status],
                                  [status |-> "paid",
                                   payment_method |-> payment_method])
         /\ last' = Response("mark_bill_as_paid", bill_id, 200)
         /\ UNCHANGED <<patients, doctors, appointments, bill_items, reqs>>

----------------------------------------------------------------------------
(* The store after db.create_all(): every table empty                      *)

Init ==
    /\ patients = EmptyTable
    /\ doctors = EmptyTable
    /\ appointments = EmptyTable
    /\ bills = EmptyTable
    /\ bill_items = EmptyTable
    /\ audit = <<>>
    /\ last = Response("none", 0, 0)
    /\ reqs = <<>>

----------------------------------------------------------------------------
(* Requests, one at a time: each handler applied to the payloads of a set  *)

CreatePatient(payloads) == \E data \in payloads : create_patient(data)
UpdatePatient(payloads) ==
    \E id \in PatientIds, data \in payloads : update_patient(id, data)
UpdateDoctor(payloads) ==
    \E id \in DoctorIds, data \in payloads : update_doctor(id, data)
UpdateDoctorStatus(payloads) ==
    \E id \in DoctorIds, data \in payloads : update_doctor_status(id, data)
DeletePatient == \E id \in PatientIds : delete_patient(id)
CreateDoctor(payloads) == \E data \in payloads : create_doctor(data)
CreateAppointment(payloads) == \E data \in payloads : create_appointment(data)
DeleteDoctor == \E id \in DoctorIds : delete_doctor(id)
UpdateAppointment(payloads) ==
    \E id \in AppointmentIds, data \in payloads : update_appointment(id, data)
DeleteAppointment == \E id \in AppointmentIds : delete_appointment(id)
ConfirmAppointment == \E id \in AppointmentIds : confirm_appointment(id)
CancelAppointment == \E id \in AppointmentIds : cancel_appointment(id)
CompleteAppointment == \E id \in AppointmentIds : complete_appointment(id)
CreateBill(payloads) == \E data \in payloads : create_bill(data)
UpdateBill(payloads) ==
    \E id \in BillIds, data \in payloads : update_bill(id, data)
DeleteBill == \E id \in BillIds : delete_bill(id)
MarkBillAsPaid(methods) ==
    \E id \in BillIds, m \in methods : mark_bill_as_paid(id, m)

----------------------------------------------------------------------------
(* Booking: patients, doctors and the appointment handlers.  LogRoom keeps *)
(* the audit log of a behaviour within MaxLog entries.                     *)

LogRoom == Len(audit') <= MaxLog

PatientPayloads == [phone : {1}]

DoctorPayloads == [email : {1}, status : {"absent", "On Leave"}]

AppointmentPayloads ==
    [id : {0, 1}, patient_id : PatientIds, doctor_id : DoctorIds, date : Dates,
     time : Times, status : {"absent", "cancelled"}]

AppointmentUpdates ==
    [date : {0} \cup Dates, time : {0} \cup Times, doctor_id : {0, MaxDoctors + 1},
     status : {"absent", "pending", "confirmed"}]

Next ==
    \/ CreatePatient(PatientPayloads) /\ LogRoom
    \/ CreateDoctor(DoctorPayloads) /\ LogRoom
    \/ CreateAppointment(AppointmentPayloads) /\ LogRoom
    \/ UpdateAppointment(AppointmentUpdates) /\ LogRoom
    \/ DeleteAppointment /\ LogRoom
    \/ ConfirmAppointment /\ LogRoom
    \/ CancelAppointment /\ LogRoom
    \/ CompleteAppointment /\ LogRoom

Spec == Init /\ [][Next]_vars

----------------------------------------------------------------------------
(* Billing: a patient, an appointment to bill, and the bill handlers       *)

BillPayload(has, patient_id, appointment_id, items, discount, tax) ==
    [has |-> has, patient_id |-> patient_id, appointment_id |-> appointment_id,
     items |-> items, discount |-> discount, tax |-> tax]

BillPayloads ==
    { BillPayload({"items", "discount", "tax"}, 1, 0, <<1000, 550>>, 150, 1000),
      BillPayload({"items", "tax"}, 1, 0, <<2005>>, 0, 1000),
      BillPayload({"items"}, 1, 0, <<50000>>, 0, 0),
      BillPayload({"items", "discount", "tax"}, 1, 0, <<>>, 150, 1000),
      BillPayload({"discount"}, 1, 0, <<>>, 150, 0),
      BillPayload({"items"}, 2, 0, <<50000>>, 0, 0),
      BillPayload({"items", "appointment_id"}, 1, 1, <<50000>>, 0, 0),
      [has |-> {"items", "payment_method"}, patient_id |-> 1, appointment_id |-> 0,
       items |-> <<50000>>, discount |-> 0, tax |-> 0, payment_method |-> "card"] }

BillUpdate(has, items, discount, tax, total_amount, status, notes, appointment_id) ==
    [has |-> has, items |-> items, discount |-> discount, tax |-> tax,
     total_amount |-> total_amount, status |-> status, notes |-> notes,
     appointment_id |-> appointment_id]

BillUpdates ==
    { BillUpdate({"notes"}, <<>>, 0, 0, 0, "pending", 1, 0),
      BillUpdate({"discount"}, <<>>, 200, 0, 0, "pending", 0, 0),
      BillUpdate({"tax"}, <<>>, 0, 500, 0, "pending", 0, 0),
      BillUpdate({"total_amount"}, <<>>, 0, 0, 1, "pending", 0, 0),
      BillUpdate({"status"}, <<>>, 0, 0, 0, "partial", 0, 0),
      BillUpdate({"status"}, <<>>, 0, 0, 0, "paid", 0, 0),
      BillUpdate({"appointment_id"}, <<>>, 0, 0, 0, "pending", 0, 1),
      BillUpdate({"items"}, <<>>, 0, 0, 0, "pending", 0, 0),
      BillUpdate({"items", "discount", "tax"}, <<>>, 150, 1000, 0, "pending", 0, 0),
      BillUpdate({"items"}, <<50000>>, 0, 0, 0, "pending", 0, 0),
      BillUpdate({"items", "discount", "tax"}, <<1000, 550>>, 150, 1000, 0,
                 "pending", 0, 0),
      BillUpdate({"items", "discount", "tax"}, <<2005>>, 0, 1000, 0,
                 "pending", 0, 0) }

NextBilling ==
    \/ CreatePatient([phone : {1}]) /\ LogRoom
    \/ DeletePatient /\ LogRoom
    \/ CreateDoctor([email : {1}, status : {"absent"}]) /\ LogRoom
    \/ DeleteDoctor /\ LogRoom
    \/ CreateAppointment([id : {0}, patient_id : {1}, doctor_id : {1}, date : {1},
                          time : {1}, status : {"absent"}]) /\ LogRoom
    \/ DeleteAppointment /\ LogRoom
    \/ CreateBill(BillPayloads) /\ LogRoom
    \/ UpdateBill(BillUpdates) /\ LogRoom
    \/ DeleteBill /\ LogRoom
    \/ MarkBillAsPaid({"null", "cash", "cheque"}) /\ LogRoom

SpecBilling == Init /\ [][NextBilling]_vars

----------------------------------------------------------------------------
(* Directory: the patient and doctor records                               *)

PatientCreates == [phone : {0} \cup Phones]

PatientUpdates == [phone : {0} \cup Phones]

DoctorCreates == [email : {0} \cup Emails, status : {"absent"}]

DoctorUpdates == [email : {0} \cup Emails, status : {"absent", "Inactive"}]

NextDirectory ==
    \/ CreatePatient(PatientCreates) /\ LogRoom
    \/ UpdatePatient(PatientUpdates) /\ LogRoom
    \/ DeletePatient /\ LogRoom
    \/ CreateDoctor(DoctorCreates) /\ LogRoom
    \/ UpdateDoctor(DoctorUpdates) /\ LogRoom
    \/ DeleteDoctor /\ LogRoom

SpecDirectory == Init /\ [][NextDirectory]_vars

----------------------------------------------------------------------------
(* A visit from booking to payment: one patient, one doctor, one           *)
(* appointment, one bill of a single item of 500.00 for that appointment,  *)
(* paid in cash; the requests in any order.                                *)

VisitBill == BillPayload({"items", "appointment_id"}, 1, 1, <<50000>>, 0, 0)

NextVisit ==
    \/ CreatePatient([phone : {1}])
    \/ CreateDoctor([email : {1}, status : {"absent"}])
    \/ CreateAppointment([id : {0}, patient_id : {1}, doctor_id : {1}, date : {1},
                          time : {1}, status : {"absent"}])
    \/ ConfirmAppointment
    \/ CreateBill({VisitBill})
    \/ MarkBillAsPaid({"cash"})
    \/ DeletePatient

SpecVisit == Init /\ [][NextVisit]_vars

----------------------------------------------------------------------------
(* Every mutating handler, each with a few payloads                        *)

NextAudited ==
    \/ CreatePatient([phone : {1}]) /\ LogRoom
    \/ UpdatePatient([phone : {2}]) /\ LogRoom
    \/ DeletePatient /\ LogRoom
    \/ CreateDoctor([email : {1}, status : {"absent"}]) /\ LogRoom
    \/ UpdateDoctor([email : {2}, status : {"absent"}]) /\ LogRoom
    \/ UpdateDoctorStatus([status : {"absent", "On Leave", "Retired"}]) /\ LogRoom
    \/ DeleteDoctor /\ LogRoom
    \/ CreateAppointment([id : {0}, patient_id : {1}, doctor_id : {1}, date : {1},
                          time : {1}, status : {"absent"}]) /\ LogRoom
    \/ UpdateAppointment([date : {2}, time : {0}, doctor_id : {0},
                          status : {"absent"}]) /\ LogRoom
    \/ DeleteAppointment /\ LogRoom
    \/ ConfirmAppointment /\ LogRoom
    \/ CancelAppointment /\ LogRoom
    \/ CompleteAppointment /\ LogRoom
    \/ CreateBill({VisitBill,
                   BillPayload({"items"}, 1, 0, <<>>, 0, 0)}) /\ LogRoom
    \/ UpdateBill({BillUpdate({"notes"}, <<>>, 0, 0, 0, "pending", 1, 0),
                   BillUpdate({"items"}, <<50000>>, 0, 0, 0, "pending", 0, 0)})
          /\ LogRoom
    \/ DeleteBill /\ LogRoom
    \/ MarkBillAsPaid({"cash", "cheque"}) /\ LogRoom

SpecAudited == Init /\ [][NextAudited]_vars

----------------------------------------------------------------------------
(* Identifier generation on stores that hold records with small ids and    *)
(* with ids around the first suffix wider than the padding.  One table at  *)
(* a time holds the sample; appointments and bills refer to patient 1 and  *)
(* doctor 1.                                                               *)

MaxStored == 2
MaxDeletes == 1

Overflow == 10 ^ IdPad

IdSamples == {1, 2, 10, Overflow - 1, Overflow, Overflow + 1}

StoredIdSets == {ids \in SUBSET IdSamples : Cardinality(ids) <= MaxStored}

EntityTypes == {"patient", "doctor", "appointment", "bill"}

PatientRow(k) == [phone |-> k]

DoctorRow(k) == [email |-> k, status |-> "Active"]

AppointmentRow(k) ==
    [patient_id |-> 1, doctor_id |-> 1, date |-> k, time |-> 1, status |-> "pending"]

BillRow(k) ==
    Bill_create(EmptyTable, BillPayload({"items"}, 1, 0, <<50000>>, 0, 0),
                <<50000>>).row

InitIds ==
    \E e \in EntityTypes, ids \in StoredIdSets :
        /\ patients = IF e = "patient" THEN [k \in ids |-> PatientRow(k)]
                      ELSE [k \in {1} |-> PatientRow(k)]
        /\ doctors = IF e = "doctor" THEN [k \in ids |-> DoctorRow(k)]
                     ELSE [k \in {1} |-> DoctorRow(k)]
        /\ appointments = IF e = "appointment"
                          THEN [k \in ids |-> AppointmentRow(k)] ELSE EmptyTable
        /\ bills = IF e = "bill" THEN [k \in ids |-> BillRow(k)] ELSE EmptyTable
        /\ bill_items = IF e = "bill" THEN [k \in ids |-> <<50000>>] ELSE EmptyTable
        /\ audit = <<>>
        /\ last = Response("none", 0, 0)
        /\ reqs = <<>>

Stored ==
    Cardinality(DOMAIN patients) + Cardinality(DOMAIN doctors)
        + Cardinality(DOMAIN appointments) + Cardinality(DOMAIN bills)

(* Model.create: the id generated from the row that sorts last, the row    *)
(* added and committed; the commit fails on a primary key already stored   *)
Model_create(table, row) ==
    LET id == NewNum(DOMAIN table)
    IN  IF id \in DOMAIN table
        THEN [id |-> id, code |-> 500, table |-> table]
        ELSE [id |-> id, code |-> 201, table |-> Put(table, id, row)]

Patient_create ==
    LET new == Model_create(patients, PatientRow(NewNum(DOMAIN patients)))
    IN  /\ Stored <= MaxStored + 2
        /\ patients' = new.table
        /\ last' = Response("Patient.create", new.id, new.code)
        /\ UNCHANGED <<doctors, appointments, bills, bill_items, audit, reqs>>

Doctor_create ==
    LET new == Model_create(doctors, DoctorRow(NewNum(DOMAIN doctors)))
    IN  /\ Stored <= MaxStored + 2
        /\ doctors' = new.table
        /\ last' = Response("Doctor.create", new.id, new.code)
        /\ UNCHANGED <<patients, appointments, bills, bill_items, audit, reqs>>

Appointment_create_generated ==
    LET new == Model_create(appointments,
                            AppointmentRow(NewNum(DOMAIN appointments)))
    IN  /\ Stored <= MaxStored + 2
        /\ appointments' = new.table
        /\ last' = Response("Appointment.create", new.id, new.code)
        /\ UNCHANGED <<patients, doctors, bills, bill_items, audit, reqs>>

Bill_create_generated ==
    LET new == Model_create(bills, BillRow(NewNum(DOMAIN bills)))
    IN  /\ Stored <= MaxStored + 2
        /\ bills' = new.table
        /\ bill_items' = IF new.code = 201 THEN Put(bill_items, new.id, <<50000>>)
                         ELSE bill_items
        /\ last' = Response("Bill.create", new.id, new.code)
        /\ UNCHANGED <<patients, doctors, appointments, audit, reqs>>

DeleteStored ==
    /\ Len(audit) < MaxDeletes
    /\ \/ \E id \in DOMAIN patients : delete_patient(id)
       \/ \E id \in DOMAIN doctors : delete_doctor(id)
       \/ \E id \in DOMAIN appointments : delete_appointment(id)
       \/ \E id \in DOMAIN bills : delete_bill(id)

NextIds ==
    \/ Patient_create
    \/ Doctor_create
    \/ Appointment_create_generated
    \/ Bill_create_generated
    \/ DeleteStored

SpecIds == InitIds /\ [][NextIds]_vars

----------------------------------------------------------------------------
(* Concurrent booking: two workers, each handling one create request       *)

NumWorkers == 2
Workers == 1..NumWorkers

InitConcurrent ==
    /\ patients = EmptyTable
    /\ doctors = EmptyTable
    /\ appointments = EmptyTable
    /\ bills = EmptyTable
    /\ bill_items = EmptyTable
    /\ audit = <<>>
    /\ last = Response("none", 0, 0)
    /\ reqs = [r \in Workers |-> Idle]

ConcurrentPayloads ==
    [id : {0, MaxAppointments}, patient_id : {1}, doctor_id : {1}, date : {1},
     time : Times, status : {"absent"}]

CheckStep == \E r \in Workers, data \in ConcurrentPayloads :
                 create_appointment_check(r, data)
InsertStep == \E r \in Workers : create_appointment_insert(r)

NextConcurrent ==
    \/ CreatePatient([phone : {1}])
    \/ CreateDoctor([email : {1}, status : {"absent"}])
    \/ CheckStep
    \/ InsertStep

SpecConcurrent == InitConcurrent /\ [][NextConcurrent]_vars

----------------------------------------------------------------------------
(* Storage errors: the commit of AuditLog.log raises after the commit of   *)
(* the mutation; the handler's except clause answers through handle_error. *)
(* A request carries its query string; the error carries its text.         *)

ErrorTexts == {"disk full", "connection lost"}
QueryArgs == [debug : {"absent", "1"}]

handle_error(e, status_code, message, args) ==
    [code |-> status_code,
     error |-> message,
     details |-> IF args.debug \notin {"absent", ""} THEN e ELSE "null"]

ErrorResponse(op, id, args, response) ==
    [op |-> op, id |-> id, code |-> response.code, args |-> args,
     error |-> response.error, details |-> response.details]

create_appointment_audit_fails(data, e, args) ==
    LET new == Appointment_create(DOMAIN appointments, data)
    IN  /\ data.patient_id # 0 /\ data.doctor_id # 0
        /\ data.date # 0 /\ data.time # 0
        /\ data.patient_id \in DOMAIN patients
        /\ data.doctor_id \in DOMAIN doctors
        /\ doctors[data.doctor_id].status = "Active"
        /\ Appointment_check_availability(appointments, data.doctor_id,
                                          data.date, data.time)
        /\ new.id \notin DOMAIN appointments
        /\ new.id <= MaxAppointments
        /\ appointments' = Put(appointments, new.id, new.row)
        /\ last' = ErrorResponse("create_appointment", new.id, args,
                                 handle_error(e, 500, "An error occurred", args))
        /\ UNCHANGED <<patients, doctors, bills, bill_items, audit, reqs>>

delete_appointment_audit_fails(appointment_id, e, args) ==
    /\ appointment_id \in DOMAIN appointments
    /\ \A b \in DOMAIN bills : bills[b].appointment_id # appointment_id
    /\ appointments' = Remove(appointments, appointment_id)
    /\ last' = ErrorResponse("delete_appointment", appointment_id, args,
                             handle_error(e, 500, "An error occurred", args))
    /\ UNCHANGED <<patients, doctors, bills, bill_items, audit, reqs>>

mark_bill_as_paid_rolled_back(bill_id, payment_method, e, args) ==
    /\ bill_id \in DOMAIN bills
    /\ bills[bill_id].status # "paid"
    /\ payment_method = "null" \/ payment_method \in PaymentMethods
    /\ last' = ErrorResponse("mark_bill_as_paid", bill_id, args,
                             handle_error(e, 500, "An error occurred", args))
    /\ UNCHANGED <<patients, doctors, appointments, bills, bill_items, audit, reqs>>

mark_bill_as_paid_audit_fails(bill_id, payment_method, e, args) ==
    /\ bill_id \in DOMAIN bills
    /\ bills[bill_id].status # "paid"
    /\ payment_method = "null" \/ payment_method \in PaymentMethods
    /\ bills' = Put(bills, bill_id,
                    Bill_mark_as_paid(bills[bill_id], payment_method))
    /\ last' = ErrorResponse("mark_bill_as_paid", bill_id, args,
                             handle_error(e, 500, "An error occurred", args))
    /\ UNCHANGED <<patients, doctors, appointments, bill_items, audit, reqs>>

FailingPayloads ==
    [id : {0}, patient_id : {1}, doctor_id : {1}, date : Dates, time : {1},
     status : {"absent"}]

CreateAppointmentAuditFails ==
    \E data \in FailingPayloads, e \in ErrorTexts, args \in QueryArgs :
        create_appointment_audit_fails(data, e, args)
DeleteAppointmentAuditFails ==
    \E id \in AppointmentIds, e \in ErrorTexts, args \in QueryArgs :
        delete_appointment_audit_fails(id, e, args)
MarkBillAsPaidAuditFails ==
    \E id \in BillIds, m \in {"null", "cash"}, e \in ErrorTexts, args \in QueryArgs :
        mark_bill_as_paid_audit_fails(id, m, e, args)

NextAuditFailure ==
    \/ CreatePatient([phone : {1}]) /\ LogRoom
    \/ CreateDoctor([email : {1}, status : {"absent"}]) /\ LogRoom
    \/ CreateAppointment(FailingPayloads) /\ LogRoom
    \/ DeleteAppointment /\ LogRoom
    \/ CreateBill({BillPayload({"items"}, 1, 0, <<50000>>, 0, 0)}) /\ LogRoom
    \/ MarkBillAsPaid({"cash"}) /\ LogRoom
    \/ CreateAppointmentAuditFails
    \/ DeleteAppointmentAuditFails
    \/ MarkBillAsPaidAuditFails

SpecAuditFailure == Init /\ [][NextAuditFailure]_vars

----------------------------------------------------------------------------
(* Records: the update methods of the models applied to rows that hold the *)
(* columns the update loops guard.  A payload maps any set of keys to JSON *)
(* values; a stored column holds value 1 or 2, a timestamp a clock value.  *)

Stamps == {1, 2}
Clock == {3, 4}

PatientColumns == {"id", "phone", "created_at", "updated_at"}
DoctorColumns == {"id", "email", "created_at", "updated_at"}
AppointmentColumns ==
    {"id", "patient_id", "doctor_id", "date", "created_at", "updated_at"}
BillColumns == {"id", "patient_id", "appointment_id", "notes", "created_at",
                "updated_at"}

(* for key, value in data.items():                                         *)
(*     if hasattr(self, key) and key not in excluded: setattr(...)         *)
(* self.updated_at = datetime.utcnow()                                     *)
setattr_loop(row, data, excluded, now) ==
    [key \in DOMAIN row |->
        IF key = "updated_at" THEN now
        ELSE IF key \in DOMAIN data /\ key \notin excluded THEN data[key]
        ELSE row[key]]

Patient_update_record(row, data, now) ==
    setattr_loop(row, data, {"id", "created_at"}, now)

Doctor_update_record(row, data, now) ==
    setattr_loop(row, data, {"id", "created_at"}, now)

Appointment_update_record(row, data, now) ==
    setattr_loop(row, data, {"id", "created_at", "patient_id", "doctor_id"}, now)

Bill_update_record_any_patient(row, data, now) ==
    setattr_loop(row, data, {"id", "created_at"}, now)

Bill_update_record(row, data, now) ==
    setattr_loop(row, data, {"id", "created_at", "patient_id"}, now)

(* payloads: every key of the set present or absent; a guarded column is   *)
(* sent with the value the stored row does not hold                        *)
RecordPayloads(mutable, guarded) ==
    UNION {[keys -> Stamps] : keys \in SUBSET mutable}
    \cup {[key \in keys \cup guarded |-> 2] : keys \in SUBSET mutable}
    \cup UNION {{[key \in {g, "unknown"} |-> 2]} : g \in guarded}

InitRecords ==
    /\ patients = Put(EmptyTable, 1, [key \in PatientColumns |-> 1])
    /\ doctors = Put(EmptyTable, 1, [key \in DoctorColumns |-> 1])
    /\ appointments = Put(EmptyTable, 1, [key \in AppointmentColumns |-> 1])
    /\ bills = Put(EmptyTable, 1, [key \in BillColumns |-> 1])
    /\ bill_items = EmptyTable
    /\ audit = <<>>
    /\ last = Response("none", 0, 0)
    /\ reqs = <<>>

Processed(data) == <<[pc |-> "done", data |-> data, code |-> 200]>>

PatientUpdateRecord ==
    \E data \in RecordPayloads({"phone"}, {"id", "created_at"}), now \in Clock :
        /\ patients' = Put(patients, 1, Patient_update_record(patients[1], data, now))
        /\ last' = Response("Patient.update", 1, 200)
        /\ reqs' = Processed(data)
        /\ UNCHANGED <<doctors, appointments, bills, bill_items, audit>>

DoctorUpdateRecord ==
    \E data \in RecordPayloads({"email"}, {"id", "created_at"}), now \in Clock :
        /\ doctors' = Put(doctors, 1, Doctor_update_record(doctors[1], data, now))
        /\ last' = Response("Doctor.update", 1, 200)
        /\ reqs' = Processed(data)
        /\ UNCHANGED <<patients, appointments, bills, bill_items, audit>>

AppointmentUpdateRecord ==
    \E data \in RecordPayloads({"date"},
                               {"id", "created_at", "patient_id", "doctor_id"}),
       now \in Clock :
        /\ appointments' = Put(appointments, 1,
                               Appointment_update_record(appointments[1], data, now))
        /\ last' = Response("Appointment.update", 1, 200)
        /\ reqs' = Processed(data)
        /\ UNCHANGED <<patients, doctors, bills, bill_items, audit>>

BillUpdateRecord ==
    \E data \in RecordPayloads({"notes", "appointment_id"},
                               {"id", "created_at", "patient_id"}),
       now \in Clock :
        /\ bills' = Put(bills, 1, Bill_update_record(bills[1], data, now))
        /\ last' = Response("Bill.update", 1, 200)
        /\ reqs' = Processed(data)
        /\ UNCHANGED <<patients, doctors, appointments, bill_items, audit>>

NextRecords ==
    \/ PatientUpdateRecord
    \/ DoctorUpdateRecord
    \/ AppointmentUpdateRecord
    \/ BillUpdateRecord

SpecRecords == InitRecords /\ [][NextRecords]_vars

----------------------------------------------------------------------------
(* Items: update requests on a store that holds NumStoredBills bills of    *)
(* one patient, each created with one of the item lists.                   *)

NumStoredBills == 2
ItemLists == {<<50000>>, <<1000, 550>>}

StoredBill(items) == BillPayload({"items"}, 1, 0, items, 0, 0)

InitItems ==
    \E lists \in [1..NumStoredBills -> ItemLists] :
        /\ patients = Put(EmptyTable, 1, [phone |-> 1])
        /\ doctors = EmptyTable
        /\ appointments = EmptyTable
        /\ bills = [b \in 1..NumStoredBills |->
                       Bill_create(EmptyTable, StoredBill(lists[b]), lists[b]).row]
        /\ bill_items = lists
        /\ audit = [k \in 1..(NumStoredBills + 1) |->
                       IF k = 1
                       THEN [action |-> "CREATE", entity_type |-> "patient",
                             entity_id |-> 1, old_data |-> Null,
                             new_data |-> [phone |-> 1]]
                       ELSE [action |-> "CREATE", entity_type |-> "bill",
                             entity_id |-> k - 1, old_data |-> Null,
                             new_data |-> Bill_to_dict(
                                 Bill_create(EmptyTable, StoredBill(lists[k - 1]),
                                             lists[k - 1]).row,
                                 lists[k - 1])]]
        /\ last = Response("none", 0, 0)
        /\ reqs = <<>>

ItemUpdates ==
    { BillUpdate({"items"}, <<>>, 0, 0, 0, "pending", 0, 0),
      BillUpdate({"items", "discount", "tax"}, <<>>, 150, 1000, 0, "pending", 0, 0),
      BillUpdate({"items"}, <<50000>>, 0, 0, 0, "pending", 0, 0),
      BillUpdate({"items", "notes"}, <<1000, 550>>, 0, 0, 0, "pending", 1, 0),
      BillUpdate({"notes"}, <<>>, 0, 0, 0, "pending", 1, 0),
      BillUpdate({"status"}, <<>>, 0, 0, 0, "partial", 0, 0) }

UpdateStoredBill ==
    \E id \in 1..(NumStoredBills + 1), data \in ItemUpdates : update_bill(id, data)
MarkStoredBillAsPaid ==
    \E id \in 1..NumStoredBills : mark_bill_as_paid(id, "cash")
DeleteStoredBill == \E id \in 1..NumStoredBills : delete_bill(id)

NextItems ==
    \/ UpdateStoredBill
    \/ MarkStoredBillAsPaid
    \/ DeleteStoredBill

SpecItems == InitItems /\ [][NextItems]_vars

----------------------------------------------------------------------------
(* Listings: the reads of the bills, page by page.                         *)

PerPage == {1, 20}

RECURSIVE Descending(_)
Descending(ids) ==
    IF ids = {} THEN <<>>
    ELSE LET newest == CHOOSE x \in ids : \A y \in ids : y <= x
         IN  <<newest>> \o Descending(ids \ {newest})

paginate(rows, page, per_page) ==
    LET first == (page - 1) * per_page + 1
        end == IF page * per_page < Len(rows) THEN page * per_page ELSE Len(rows)
    IN  SubSeq(rows, first, end)

Bill_get_all(page, per_page, status) ==
    paginate(Descending({b \in DOMAIN bills :
                            status = "null" \/ bills[b].status = status}),
             page, per_page)

Bill_get_outstanding_bills ==
    {b \in DOMAIN bills : bills[b].status \in {"pending", "partial"}}

get_outstanding_bills(page, per_page) == Bill_get_all(page, per_page, "pending")

----------------------------------------------------------------------------
(* Availability: the check-availability endpoint, and booking requests on  *)
(* stores whose ids are drawn as for the generated ids.                    *)

check_availability(doctor_id, date, time) ==
    IF doctor_id = 0 \/ date = 0 \/ time = 0
    THEN [code |-> 400, available |-> "absent"]
    ELSE IF doctor_id \notin DOMAIN doctors
    THEN [code |-> 404, available |-> "absent"]
    ELSE IF doctors[doctor_id].status # "Active"
    THEN [code |-> 200, available |-> FALSE]
    ELSE [code |-> 200,
          available |-> Appointment_check_availability(appointments, doctor_id,
                                                       date, time)]

SlotRequests ==
    [id : {0}, patient_id : {1}, doctor_id : {1, 2}, date : Dates, time : {1},
     status : {"absent"}]

(* at most MaxDeletes + 1 mutations follow the stored records *)
SlotRoom == Len(audit') <= MaxDeletes + 1

NextSlots ==
    \/ CreateAppointment(SlotRequests) /\ SlotRoom
    \/ (\E id \in DOMAIN appointments : cancel_appointment(id)) /\ SlotRoom
    \/ (\E id \in DOMAIN appointments : delete_appointment(id)) /\ SlotRoom
    \/ (\E id \in DOMAIN doctors :
           update_doctor_status(id, [email |-> 0, status |-> "On Leave"]))
          /\ SlotRoom

SpecSlots == InitIds /\ [][NextSlots]_vars

----------------------------------------------------------------------------
(* Rescheduling: updates whose payload may name the appointment's own      *)
(* doctor, date and time.                                                  *)

RescheduleUpdates ==
    [date : {0} \cup Dates, time : {0, 1}, doctor_id : {0, 1, 2},
     status : {"absent", "confirmed"}]

NextReschedule ==
    \/ CreatePatient([phone : {1}]) /\ LogRoom
    \/ CreateDoctor([email : {1, 2}, status : {"absent"}]) /\ LogRoom
    \/ CreateAppointment([id : {0}, patient_id : {1}, doctor_id : {1}, date : Dates,
                          time : {1}, status : {"absent"}]) /\ LogRoom
    \/ UpdateAppointment(RescheduleUpdates) /\ LogRoom
    \/ CompleteAppointment /\ LogRoom

SpecReschedule == Init /\ [][NextReschedule]_vars

----------------------------------------------------------------------------
(* Payments: requests on one bill handled by workers that interleave.  A   *)
(* handler reads the bill and runs its checks in one step and commits its  *)
(* write in a later one; the row it holds is the one it read.  The commit  *)
(* of an update writes the columns the handler changed on the row it read; *)
(* the commit on a row deleted in between fails (500).                     *)

IdleRequest == [pc |-> "idle", op |-> "none", id |-> 0, data |-> Null,
                seen |-> Null, code |-> 0]

PaidBill == BillPayload({"items", "discount", "tax"}, 1, 0, <<1000, 550>>, 150, 1000)

InitPayments ==
    LET new == Bill_create(EmptyTable, PaidBill, PaidBill.items)
    IN  /\ patients = Put(EmptyTable, 1, [phone |-> 1])
        /\ doctors = EmptyTable
        /\ appointments = EmptyTable
        /\ bills = Put(EmptyTable, 1, new.row)
        /\ bill_items = Put(EmptyTable, 1, new.items)
        /\ audit = << [action |-> "CREATE", entity_type |-> "patient",
                       entity_id |-> 1, old_data |-> Null,
                       new_data |-> [phone |-> 1]],
                      [action |-> "CREATE", entity_type |-> "bill",
                       entity_id |-> 1, old_data |-> Null,
                       new_data |-> Bill_to_dict(new.row, new.items)] >>
        /\ last = Response("none", 0, 0)
        /\ reqs = [r \in Workers |-> IdleRequest]

Read(r, op, bill_id, data, code) ==
    /\ reqs[r].pc = "idle"
    /\ reqs' = [reqs EXCEPT ![r] =
                   [pc |-> IF code = 0 THEN "checked" ELSE "done",
                    op |-> op, id |-> bill_id, data |-> data,
                    seen |-> IF bill_id \in DOMAIN bills
                             THEN [row |-> bills[bill_id],
                                   items |-> bill_items[bill_id]]
                             ELSE Null,
                    code |-> code]]
    /\ UNCHANGED <<patients, doctors, appointments, bills, bill_items, audit, last>>

update_bill_check(r, bill_id, data) ==
    Read(r, "update_bill", bill_id, data,
         IF bill_id \notin DOMAIN bills THEN 404
         ELSE IF bills[bill_id].status = "paid" THEN 400
         ELSE IF /\ Get(data, "appointment_id", 0) # 0
                 /\ data.appointment_id \notin DOMAIN appointments THEN 404
         ELSE IF Bill_update_raises(data) THEN 500
         ELSE 0)

delete_bill_check(r, bill_id) ==
    Read(r, "delete_bill", bill_id, Null,
         IF bill_id \notin DOMAIN bills THEN 404
         ELSE IF bills[bill_id].status = "paid" THEN 400
         ELSE 0)

mark_bill_as_paid_check(r, bill_id, payment_method) ==
    Read(r, "mark_bill_as_paid", bill_id, payment_method,
         IF bill_id \notin DOMAIN bills THEN 404
         ELSE IF bills[bill_id].status = "paid" THEN 400
         ELSE IF payment_method # "null" /\ payment_method \notin PaymentMethods
         THEN 400
         ELSE 0)

(* the UPDATE of a commit: the columns whose value the handler changed *)
Flush(stored, read, written) ==
    [column \in DOMAIN stored |->
        IF written[column] # read[column] THEN written[column]
        ELSE stored[column]]

Done(r, code) == reqs' = [reqs EXCEPT ![r].pc = "done", ![r].code = code]

Stale(r) ==
    /\ Done(r, 500)
    /\ UNCHANGED <<patients, doctors, appointments, bills, bill_items, audit, last>>

update_bill_write(r) ==
    LET id == reqs[r].id
        read == reqs[r].seen
        new == Bill_update(read.row, read.items, reqs[r].data)
    IN  /\ reqs[r].pc = "checked"
        /\ reqs[r].op = "update_bill"
        /\ IF id \notin DOMAIN bills
           THEN Stale(r)
           ELSE /\ Len(audit) < MaxAudit
                /\ bills' = Put(bills, id, Flush(bills[id], read.row, new.row))
                /\ bill_items' = IF "items" \in reqs[r].data.has
                                 THEN Put(bill_items, id, new.items)
                                 ELSE bill_items
                /\ audit' = AuditLog_log(audit, "UPDATE", "bill", id,
                                         Bill_to_dict(read.row, read.items),
                                         Bill_to_dict(new.row, new.items))
                /\ Done(r, 200)
                /\ UNCHANGED <<patients, doctors, appointments, last>>

delete_bill_write(r) ==
    LET id == reqs[r].id
        read == reqs[r].seen
    IN  /\ reqs[r].pc = "checked"
        /\ reqs[r].op = "delete_bill"
        /\ IF id \notin DOMAIN bills
           THEN Stale(r)
           ELSE /\ Len(audit) < MaxAudit
                /\ bills' = Remove(bills, id)
                /\ bill_items' = Remove(bill_items, id)
                /\ audit' = AuditLog_log(audit, "DELETE", "bill", id,
                                         Bill_to_dict(read.row, read.items), Null)
                /\ Done(r, 200)
                /\ UNCHANGED <<patients, doctors, appointments, last>>

mark_bill_as_paid_write(r) ==
    LET id == reqs[r].id
        read == reqs[r].seen
        new == Bill_mark_as_paid(read.row, reqs[r].data)
    IN  /\ reqs[r].pc = "checked"
        /\ reqs[r].op = "mark_bill_as_paid"
        /\ IF id \notin DOMAIN bills
           THEN Stale(r)
           ELSE /\ Len(audit) < MaxAudit
                /\ bills' = Put(bills, id, Flush(bills[id], read.row, new))
                /\ audit' = AuditLog_log(audit, "MARK_PAID", "bill", id,
                                         [status |-> read.row.status],
                                         [status |-> "paid",
                                          payment_method |-> reqs[r].data])
                /\ Done(r, 200)
                /\ UNCHANGED <<patients, doctors, appointments, bill_items, last>>

PaymentUpdates ==
    { BillUpdate({"notes"}, <<>>, 0, 0, 0, "pending", 1, 0),
      BillUpdate({"items"}, <<>>, 0, 0, 0, "pending", 0, 0),
      BillUpdate({"status"}, <<>>, 0, 0, 0, "partial", 0, 0),
      BillUpdate({"items"}, <<50000>>, 0, 0, 0, "pending", 0, 0) }

UpdateBillCheck ==
    \E r \in Workers, data \in PaymentUpdates : update_bill_check(r, 1, data)
DeleteBillCheck == \E r \in Workers : delete_bill_check(r, 1)
MarkBillAsPaidCheck ==
    \E r \in Workers, m \in {"null", "cash", "cheque"} :
        mark_bill_as_paid_check(r, 1, m)
UpdateBillWrite == \E r \in Workers : update_bill_write(r)
DeleteBillWrite == \E r \in Workers : delete_bill_write(r)
MarkBillAsPaidWrite == \E r \in Workers : mark_bill_as_paid_write(r)
(* the worker takes the next request *)
NextRequest ==
    \E r \in Workers :
        /\ reqs[r].pc = "done"
        /\ reqs' = [reqs EXCEPT ![r] = IdleRequest]
        /\ UNCHANGED <<patients, doctors, appointments, bills, bill_items,
                       audit, last>>

NextPayments ==
    \/ UpdateBillCheck
    \/ DeleteBillCheck
    \/ MarkBillAsPaidCheck
    \/ UpdateBillWrite
    \/ DeleteBillWrite
    \/ MarkBillAsPaidWrite
    \/ NextRequest

SpecPayments == InitPayments /\ [][NextPayments]_vars

----------------------------------------------------------------------------
(* References: creates, updates and deletes of every table, with payloads  *)
(* that name stored and missing patients, doctors and appointments         *)

ReferenceBills ==
    { BillPayload({"items"}, 1, 0, <<50000>>, 0, 0),
      BillPayload({"items"}, 2, 0, <<50000>>, 0, 0),
      BillPayload({"items", "appointment_id"}, 1, 1, <<50000>>, 0, 0),
      BillPayload({"items", "appointment_id"}, 1, 2, <<50000>>, 0, 0) }

ReferenceUpdates ==
    { BillUpdate({"appointment_id"}, <<>>, 0, 0, 0, "pending", 0, 1),
      BillUpdate({"appointment_id"}, <<>>, 0, 0, 0, "pending", 0, 2),
      BillUpdate({"items"}, <<>>, 0, 0, 0, "pending", 0, 0) }

NextReferences ==
    \/ CreatePatient([phone : {1}]) /\ LogRoom
    \/ DeletePatient /\ LogRoom
    \/ CreateDoctor([email : {1}, status : {"absent"}]) /\ LogRoom
    \/ DeleteDoctor /\ LogRoom
    \/ CreateAppointment([id : {0}, patient_id : {1, 2}, doctor_id : {1, 2},
                          date : {1}, time : {1}, status : {"absent"}]) /\ LogRoom
    \/ UpdateAppointment([date : {0, 2}, time : {0}, doctor_id : {0, 2},
                          status : {"absent"}]) /\ LogRoom
    \/ DeleteAppointment /\ LogRoom
    \/ CreateBill(ReferenceBills) /\ LogRoom
    \/ UpdateBill(ReferenceUpdates) /\ LogRoom
    \/ DeleteBill /\ LogRoom

SpecReferences == Init /\ [][NextReferences]_vars

----------------------------------------------------------------------------
(* Statistics: bills carry the instant of their creation in the date       *)
(* column; a day of the query string is parsed to its midnight.            *)

NumDays == 2
Days == 1..NumDays
Midnight(day) == 2 * day
Instants == UNION {{Midnight(day), Midnight(day) + 1} : day \in Days}

RECURSIVE func_sum(_)
func_sum(ids) ==
    IF ids = {} THEN 0
    ELSE LET b == CHOOSE b \in ids : TRUE
         IN  bills[b].total_amount + func_sum(ids \ {b})

(* the sums are taken over every bill of the status *)
Bill_get_statistics(start_date, end_date) ==
    LET query == {b \in DOMAIN bills :
                     /\ start_date # 0 => bills[b].date >= start_date
                     /\ end_date # 0 => bills[b].date <= end_date}
        filter_by(status) == Cardinality({b \in query : bills[b].status = status})
    IN  [total_revenue |->
             func_sum({b \in DOMAIN bills : bills[b].status = "paid"}),
         pending_amount |->
             func_sum({b \in DOMAIN bills :
                          bills[b].status \in {"pending", "partial"}}),
         status_distribution |->
             [paid |-> filter_by("paid"), pending |-> filter_by("pending"),
              partial |-> filter_by("partial")]]

get_billing_statistics(start_date, end_date) ==
    /\ last' = [op |-> "get_billing_statistics", id |-> 0, code |-> 200,
                args |-> [start_date |-> start_date, end_date |-> end_date],
                statistics |->
                    Bill_get_statistics(
                        IF start_date # 0 THEN Midnight(start_date) ELSE 0,
                        IF end_date # 0 THEN Midnight(end_date) ELSE 0)]
    /\ UNCHANGED <<patients, doctors, appointments, bills, bill_items, audit, reqs>>

CreatedBill(items, status) ==
    Bill_create(EmptyTable,
                [has |-> {"items", "status"}, patient_id |-> 1,
                 appointment_id |-> 0, items |-> items, discount |-> 0,
                 tax |-> 0, status |-> status],
                items).row

InitStatistics ==
    \E lists \in [1..NumStoredBills -> ItemLists],
       statuses \in [1..NumStoredBills -> {"pending", "partial"}],
       dates \in [1..NumStoredBills -> Instants] :
        /\ \A b \in 1..(NumStoredBills - 1) : dates[b] <= dates[b + 1]
        /\ patients = Put(EmptyTable, 1, [phone |-> 1])
        /\ doctors = EmptyTable
        /\ appointments = EmptyTable
        /\ bills = [b \in 1..NumStoredBills |->
                       [column \in DOMAIN CreatedBill(lists[b], statuses[b])
                                   \cup {"date"} |->
                           IF column = "date" THEN dates[b]
                           ELSE CreatedBill(lists[b], statuses[b])[column]]]
        /\ bill_items = lists
        /\ audit = [k \in 1..(NumStoredBills + 1) |->
                       IF k = 1
                       THEN [action |-> "CREATE", entity_type |-> "patient",
                             entity_id |-> 1, old_data |-> Null,
                             new_data |-> [phone |-> 1]]
                       ELSE [action |-> "CREATE", entity_type |-> "bill",
                             entity_id |-> k - 1, old_data |-> Null,
                             new_data |-> Bill_to_dict(
                                 CreatedBill(lists[k - 1], statuses[k - 1]),
                                 lists[k - 1])]]
        /\ last = Response("none", 0, 0)
        /\ reqs = <<>>

GetBillingStatistics ==
    \E start_date \in {0} \cup Days, end_date \in {0} \cup Days :
        get_billing_statistics(start_date, end_date)

NextStatistics ==
    \/ MarkStoredBillAsPaid
    \/ GetBillingStatistics

SpecStatistics == InitStatistics /\ [][NextStatistics]_vars

----------------------------------------------------------------------------
(* Properties                                                              *)

Active(a) == appointments[a].status \in ActiveStatus

SameSlot(x, y) ==
    /\ x.doctor_id = y.doctor_id
    /\ x.date = y.date
    /\ x.time = y.time

(* C1: in every state reached by requests handled one at a time, at most   *)
(* one pending or confirmed appointment exists per (doctor, date, time).   *)
C1_NoDoubleBooking ==
    \A a, b \in DOMAIN appointments :
        (a # b /\ Active(a) /\ Active(b))
            => ~SameSlot(appointments[a], appointments[b])

(* C2: two create requests for one slot whose checks and inserts            *)
(* interleave: exactly one is answered 201, the other is rejected (400, or  *)
(* any error status), and the slot never holds two active appointments.     *)
C2_ExactlyOneSucceeds ==
    /\ \A r1, r2 \in DOMAIN reqs :
          ( /\ r1 # r2
            /\ reqs[r1].pc = "done" /\ reqs[r2].pc = "done"
            /\ reqs[r1].code # 404 /\ reqs[r2].code # 404
            /\ SameSlot(reqs[r1].data, reqs[r2].data) )
          => ( /\ 201 \in {reqs[r1].code, reqs[r2].code}
               /\ \E r \in {r1, r2} : reqs[r].code >= 400 )
    /\ \A a, b \in DOMAIN appointments :
          (a # b /\ Active(a) /\ Active(b))
              => ~SameSlot(appointments[a], appointments[b])

(* C3: check_availability is false exactly when some appointment with the  *)
(* same doctor, date and time is pending or confirmed; cancelled and       *)
(* completed appointments and appointments of another slot never block.    *)
C3_AvailabilityExact ==
    \A d \in DoctorIds, dt \in Dates, t \in Times :
        LET blockers == {a \in DOMAIN appointments :
                            /\ <<appointments[a].doctor_id, appointments[a].date,
                                 appointments[a].time>> = <<d, dt, t>>
                            /\ appointments[a].status \notin {"cancelled", "completed"}}
        IN  Appointment_check_availability(appointments, d, dt, t)
                <=> (blockers = {})

C3_Witness ==
    \E a, b \in DOMAIN appointments :
        /\ appointments[a].status \in {"cancelled", "completed"}
        /\ Appointment_check_availability(appointments, appointments[a].doctor_id,
                                          appointments[a].date, appointments[a].time)
        /\ Active(b)
        /\ ~Appointment_check_availability(appointments, appointments[b].doctor_id,
                                           appointments[b].date, appointments[b].time)

(* C4: confirm, cancel and complete have the outcome the transition table  *)
(* lists for the status the appointment has when the request arrives.      *)
Outcome(i, code, status) ==
    /\ last'.code = code
    /\ i \in DOMAIN appointments'
    /\ appointments'[i].status = status

C4_TransitionTable ==
    [][\A i \in DOMAIN appointments :
         last'.id = i =>
           LET from == appointments[i].status
           IN  /\ (last'.op = "confirm_appointment" /\ from = "pending")
                     => Outcome(i, 200, "confirmed")
               /\ (last'.op = "confirm_appointment"
                     /\ from \in {"confirmed", "cancelled"})
                     => Outcome(i, 400, from)
               /\ (last'.op = "cancel_appointment"
                     /\ from \in {"pending", "confirmed"})
                     => Outcome(i, 200, "cancelled")
               /\ (last'.op = "cancel_appointment"
                     /\ from \in {"cancelled", "completed"})
                     => Outcome(i, 400, from)
               /\ (last'.op = "complete_appointment"
                     /\ from \in {"pending", "confirmed"})
                     => Outcome(i, 200, "completed")
               /\ (last'.op = "complete_appointment"
                     /\ from \in {"completed", "cancelled"})
                     => Outcome(i, 400, from)]_vars

C4_Witness ==
    /\ last.op = "cancel_appointment"
    /\ last.code = 400
    /\ last.id \in DOMAIN appointments
    /\ appointments[last.id].status = "completed"

(* C5: an appointment that is cancelled is not confirmed by any later      *)
(* request, confirm or update.                                             *)
C5_CancelledNeverConfirmed ==
    [][\A i \in DOMAIN appointments :
         (appointments[i].status = "cancelled" /\ i \in DOMAIN appointments')
             => appointments'[i].status # "confirmed"]_vars

C7_TotalIsSubtotalLessDiscountPlusTax ==
    \A b \in DOMAIN bills :
        bills[b].total_amount = bills[b].subtotal - bills[b].discount + bills[b].tax

(* C8 as stated: a created bill stores the sum of its items as subtotal,   *)
(* the discount, the exact tax (subtotal - discount) * rate / 100 and      *)
(* total = subtotal - discount + tax.                                      *)
Created(data) == create_bill(data) /\ last'.code = 201

C8_ExactTotals ==
    [][\A data \in BillPayloads :
         Created(data) =>
           LET bill == bills'[last'.id]
               d == Get(data, "discount", 0)
               r == Get(data, "tax", 0)
           IN  /\ bill.subtotal = SumAmounts(data.items)
               /\ bill.discount = d
               /\ bill.tax * 10000 = (bill.subtotal - d) * r
               /\ bill.total_amount = bill.subtotal - d + bill.tax]_vars

(* C8, amended: the tax and the total are the exact values rounded to two  *)
(* decimals (halves away from zero); items 10.00 and 5.50, discount 1.50   *)
(* and rate 10 give subtotal 15.50, tax 1.40 and total 15.40.              *)
C8_RoundedTotals ==
    [][\A data \in BillPayloads :
         Created(data) =>
           LET bill == bills'[last'.id]
               d == Get(data, "discount", 0)
               r == Get(data, "tax", 0)
               s == SumAmounts(data.items)
           IN  /\ bill.subtotal = s
               /\ bill.discount = d
               /\ 2 * Abs(bill.tax * 10000 - (s - d) * r) <= 10000
               /\ 2 * Abs(bill.total_amount * 10000 - ((s - d) * 10000 + (s - d) * r))
                     <= 10000
               /\ bill.total_amount = s - d + bill.tax
               /\ (data.items = <<1000, 550>> /\ d = 150 /\ r = 1000)
                     => (s = 1550 /\ bill.tax = 140 /\ bill.total_amount = 1540)]_vars

C8_Witness ==
    /\ last.op = "create_bill"
    /\ last.code = 201
    /\ last.id \in DOMAIN bills
    /\ bills[last.id].subtotal = 1550
    /\ bills[last.id].tax = 140
    /\ bills[last.id].total_amount = 1540
    /\ bill_items[last.id] = <<1000, 550>>

(* C9: an update of an unpaid bill that carries items, discount and tax    *)
(* stores the totals that creating a bill from that payload stores.        *)
C9_UpdateRecomputesAsCreate ==
    [][\A id \in DOMAIN bills, data \in BillUpdates :
         ( /\ {"items", "discount", "tax"} \subseteq data.has
           /\ data.items # <<>>
           /\ bills[id].status # "paid"
           /\ update_bill(id, data) )
         => LET created == Bill_create(bills,
                              BillPayload({"items", "discount", "tax"},
                                          bills[id].patient_id, 0, data.items,
                                          data.discount, data.tax),
                              data.items).row
                updated == bills'[id]
            IN  /\ updated.subtotal = created.subtotal
                /\ updated.discount = created.discount
                /\ updated.tax = created.tax
                /\ updated.total_amount = created.total_amount]_vars

(* C10: a create-bill or update-bill request with an empty items list is   *)
(* rejected and leaves every bill and bill item as it was.                 *)
C10_EmptyItemsRejected ==
    [][/\ \A data \in BillPayloads :
            ("items" \in data.has /\ data.items = <<>> /\ create_bill(data))
                => (last'.code = 400 /\ UNCHANGED <<bills, bill_items>>)
       /\ \A id \in BillIds, data \in BillUpdates :
            ("items" \in data.has /\ data.items = <<>> /\ update_bill(id, data))
                => (last'.code >= 400 /\ UNCHANGED <<bills, bill_items>>)]_vars

(* C11: an update-bill request whose payload carries no items leaves the   *)
(* bill's subtotal, discount, tax, total_amount and items as they were,    *)
(* whatever other keys the payload holds.                                  *)
C11_UpdateWithoutItemsKeepsTotals ==
    [][\A id \in DOMAIN bills, data \in BillUpdates :
         ("items" \notin data.has /\ update_bill(id, data))
         => /\ id \in DOMAIN bills'
            /\ bills'[id].subtotal = bills[id].subtotal
            /\ bills'[id].discount = bills[id].discount
            /\ bills'[id].tax = bills[id].tax
            /\ bills'[id].total_amount = bills[id].total_amount
            /\ bill_items'[id] = bill_items[id]]_vars

(* C12: a delete request on a stored doctor, patient or appointment is     *)
(* rejected exactly when a dependent record exists (an appointment of the  *)
(* doctor; an appointment or bill of the patient; a bill of the            *)
(* appointment); rejected, the record stays stored as it was; otherwise it *)
(* is removed.                                                             *)
DeleteOutcome(table, table_after, id, blocked) ==
    IF blocked
    THEN /\ last'.code = 400
         /\ id \in DOMAIN table_after
         /\ table_after[id] = table[id]
    ELSE /\ last'.code = 200
         /\ id \notin DOMAIN table_after

C12_DeleteBlockedIffDependents ==
    [][/\ \A d \in DOMAIN doctors :
            (last'.op = "delete_doctor" /\ last'.id = d)
            => DeleteOutcome(doctors, doctors', d,
                   \E a \in DOMAIN appointments : appointments[a].doctor_id = d)
       /\ \A p \in DOMAIN patients :
            (last'.op = "delete_patient" /\ last'.id = p)
            => DeleteOutcome(patients, patients', p,
                   \/ \E a \in DOMAIN appointments : appointments[a].patient_id = p
                   \/ \E b \in DOMAIN bills : bills[b].patient_id = p)
       /\ \A a \in DOMAIN appointments :
            (last'.op = "delete_appointment" /\ last'.id = a)
            => DeleteOutcome(appointments, appointments', a,
                   \E b \in DOMAIN bills : bills[b].appointment_id = a)]_vars

C12_Witness ==
    /\ last.op = "delete_patient"
    /\ last.code = 400
    /\ last.id \in DOMAIN patients
    /\ \E b \in DOMAIN bills : bills[b].patient_id = last.id
    /\ \A a \in DOMAIN appointments : appointments[a].patient_id # last.id
    /\ \E i \in DOMAIN audit :
          audit[i].action = "DELETE" /\ audit[i].entity_type = "appointment"

(* C13: with requests handled one at a time no two patients share a phone  *)
(* and no two doctors share an email; a create or update that would        *)
(* introduce such a duplicate is answered 400 and changes no stored record.*)
Unique(table, key) ==
    \A x, y \in DOMAIN table : table[x][key] = table[y][key] => x = y

C13_UniquePhoneAndEmail ==
    [][/\ Unique(patients', "phone")
       /\ Unique(doctors', "email")
       /\ \A data \in PatientCreates :
            (Patient_get_by_phone(data.phone) # {} /\ create_patient(data))
            => (last'.code = 400 /\ UNCHANGED <<patients, doctors>>)
       /\ \A id \in DOMAIN patients, data \in PatientUpdates :
            ( /\ Patient_get_by_phone(data.phone) \ {id} # {}
              /\ update_patient(id, data) )
            => (last'.code = 400 /\ UNCHANGED <<patients, doctors>>)
       /\ \A data \in DoctorCreates :
            (Doctor_get_by_email(data.email) # {} /\ create_doctor(data))
            => (last'.code = 400 /\ UNCHANGED <<patients, doctors>>)
       /\ \A id \in DOMAIN doctors, data \in DoctorUpdates :
            ( /\ Doctor_get_by_email(data.email) \ {id} # {}
              /\ update_doctor(id, data) )
            => (last'.code = 400 /\ UNCHANGED <<patients, doctors>>)]_vars

C13_Witness ==
    /\ last.op = "update_patient"
    /\ last.code = 400
    /\ Cardinality(DOMAIN patients) = 2
    /\ \E i \in DOMAIN audit :
          audit[i].action = "UPDATE" /\ audit[i].entity_type = "patient"
             /\ audit[i].old_data # audit[i].new_data

(* C14: a create-appointment request with all required fields is answered  *)
(* 201 and stores the appointment exactly when the patient exists, the     *)
(* doctor exists and is Active and the slot is available; in every other   *)
(* case it is rejected and the appointments stay as they were.             *)
C14_CreateAppointmentIff ==
    [][\A data \in AppointmentPayloads :
         create_appointment(data) =>
           LET ok == /\ data.patient_id \in DOMAIN patients
                     /\ data.doctor_id \in DOMAIN doctors
                     /\ doctors[data.doctor_id].status = "Active"
                     /\ \A a \in DOMAIN appointments :
                           ~(Active(a) /\ SameSlot(appointments[a], data))
           IN  IF ok
               THEN /\ last'.code = 201
                    /\ last'.id \in (DOMAIN appointments') \ (DOMAIN appointments)
                    /\ SameSlot(appointments'[last'.id], data)
               ELSE /\ last'.code >= 400
                    /\ appointments' = appointments]_vars

(* C15: an update that is answered 200 and changes the appointment's date  *)
(* or time leaves it in a slot (its doctor, its new date and time) that no *)
(* other pending or confirmed appointment holds.                           *)
C15_UpdateChecksOccupiedSlot ==
    [][\A i \in DOMAIN appointments :
         ( /\ last'.op = "update_appointment"
           /\ last'.id = i
           /\ last'.code = 200
           /\ \/ appointments'[i].date # appointments[i].date
              \/ appointments'[i].time # appointments[i].time )
         => \A j \in (DOMAIN appointments) \ {i} :
               Active(j) => ~SameSlot(appointments[j], appointments'[i])]_vars

(* C16: for every entity type, the id generated for a new record has a     *)
(* numeric suffix greater than the suffix of every record of that type     *)
(* stored, and 1 when none is stored, also with suffixes wider than the    *)
(* padding.                                                                *)
Monotonic(op, table) ==
    last'.op = op =>
        /\ \A k \in DOMAIN table : last'.id > k
        /\ (DOMAIN table = {}) => last'.id = 1

C16_IdMonotonic ==
    [][/\ Monotonic("Patient.create", patients)
       /\ Monotonic("Doctor.create", doctors)
       /\ Monotonic("Appointment.create", appointments)
       /\ Monotonic("Bill.create", bills)]_vars

(* C17: from the empty store, create patient, create Active doctor, create *)
(* appointment, confirm it, create a bill of one item of 500.00 for that   *)
(* patient and appointment, mark it paid in cash, delete the patient: the  *)
(* ids are P0001, D0001 and A0001, the appointment is pending then         *)
(* confirmed, the bill has total 500.00 and is pending then paid, and the  *)
(* delete is rejected with the patient still stored.                       *)
VisitSteps ==
    << <<"CREATE", "patient">>, <<"CREATE", "doctor">>, <<"CREATE", "appointment">>,
       <<"CONFIRM", "appointment">>, <<"CREATE", "bill">>, <<"MARK_PAID", "bill">> >>

(* the first n requests of the visit, and no other, have succeeded *)
VisitDone(log, n) ==
    /\ Len(log) = n
    /\ \A i \in 1..n : <<log[i].action, log[i].entity_type>> = VisitSteps[i]

(* the step in which the n-th request of the visit succeeds *)
VisitStep(n) == VisitDone(audit, n - 1) /\ VisitDone(audit', n)

C17_VisitScenario ==
    [][/\ VisitStep(1) =>
            (last'.id = 1 /\ IdStr(last'.id) = <<0, 0, 0, 1>> /\ 1 \in DOMAIN patients')
       /\ VisitStep(2) =>
            ( /\ last'.id = 1 /\ IdStr(last'.id) = <<0, 0, 0, 1>>
              /\ doctors'[1].status = "Active" )
       /\ VisitStep(3) =>
            ( /\ last'.id = 1 /\ IdStr(last'.id) = <<0, 0, 0, 1>>
              /\ appointments'[1].status = "pending" )
       /\ VisitStep(4) =>
            (appointments[1].status = "pending" /\ appointments'[1].status = "confirmed")
       /\ VisitStep(5) =>
            ( /\ bills'[last'.id].total_amount = 50000
              /\ bills'[last'.id].status = "pending"
              /\ bills'[last'.id].patient_id = 1
              /\ bills'[last'.id].appointment_id = 1 )
       /\ VisitStep(6) =>
            ( /\ bills[last'.id].status = "pending"
              /\ bills'[last'.id].status = "paid"
              /\ bills'[last'.id].payment_method = "cash"
              /\ bills'[last'.id].total_amount = 50000 )
       /\ (VisitDone(audit, 6) /\ last'.op = "delete_patient" /\ last'.id = 1) =>
            ( /\ last'.code = 400
              /\ 1 \in DOMAIN patients'
              /\ patients' = patients )]_vars

C17_Witness ==
    /\ VisitDone(audit, 6)
    /\ last = Response("delete_patient", 1, 400)
    /\ 1 \in DOMAIN patients
    /\ appointments[1].status = "confirmed"
    /\ bills[1].status = "paid"

(* C18: a mark-paid request on a pending or partial bill sets the status   *)
(* to paid and records the method when one of cash, card, upi, insurance   *)
(* is given, keeping the stored method when none is given; on a paid bill  *)
(* or with another method it is rejected and the bill stays as it was; the *)
(* amounts and the items never change.                                     *)
C18_MarkPaid ==
    [][\A b \in DOMAIN bills, m \in {"null", "cash", "cheque"} :
         mark_bill_as_paid(b, m) =>
           IF /\ bills[b].status \in {"pending", "partial"}
              /\ m \in {"null", "cash", "card", "upi", "insurance"}
           THEN /\ last'.code = 200
                /\ bills'[b].status = "paid"
                /\ bills'[b].payment_method =
                      IF m = "null" THEN bills[b].payment_method ELSE m
                /\ bills' = [bills EXCEPT ![b].status = "paid",
                                          ![b].payment_method = bills'[b].payment_method]
                /\ bill_items' = bill_items
           ELSE /\ last'.code = 400
                /\ bills' = bills
                /\ bill_items' = bill_items]_vars

C18_Witness ==
    /\ last.op = "mark_bill_as_paid"
    /\ last.code = 200
    /\ last.id \in DOMAIN bills
    /\ bills[last.id].status = "paid"
    /\ bills[last.id].payment_method = "card"
    /\ \E i \in DOMAIN audit :
          audit[i].action = "MARK_PAID" /\ audit[i].old_data.status = "partial"

(* C19: the record read back by id after an accepted create holds, in      *)
(* every field the payload submitted, the submitted value; for a bill this *)
(* includes the discount and the tax.                                      *)
C19_CreateRoundTrip ==
    [][/\ \A data \in BillPayloads :
            Created(data) =>
              LET dict == Bill_to_dict(bills'[last'.id], bill_items'[last'.id])
              IN  /\ dict.patient_id = data.patient_id
                  /\ \A key \in data.has : dict[key] = data[key]
       /\ \A data \in [phone : {1}] :
            (create_patient(data) /\ last'.code = 201)
                => patients'[last'.id].phone = data.phone
       /\ \A data \in [email : {1}, status : {"absent"}] :
            (create_doctor(data) /\ last'.code = 201)
                => doctors'[last'.id].email = data.email
       /\ \A data \in [id : {0}, patient_id : {1}, doctor_id : {1}, date : {1},
                        time : {1}, status : {"absent"}] :
            (create_appointment(data) /\ last'.code = 201)
                => /\ appointments'[last'.id].patient_id = data.patient_id
                   /\ appointments'[last'.id].doctor_id = data.doctor_id
                   /\ appointments'[last'.id].date = data.date
                   /\ appointments'[last'.id].time = data.time]_vars

(* C20: every request that succeeds in mutating the store appends exactly  *)
(* one audit entry, which names its action, entity type and entity id and  *)
(* is appended with the mutation in the store; a rejected request appends  *)
(* no entry and changes nothing.                                           *)
AuditedAs ==
    [create_patient |-> <<"CREATE", "patient">>,
     update_patient |-> <<"UPDATE", "patient">>,
     delete_patient |-> <<"DELETE", "patient">>,
     create_doctor |-> <<"CREATE", "doctor">>,
     update_doctor |-> <<"UPDATE", "doctor">>,
     update_doctor_status |-> <<"UPDATE_STATUS", "doctor">>,
     delete_doctor |-> <<"DELETE", "doctor">>,
     create_appointment |-> <<"CREATE", "appointment">>,
     update_appointment |-> <<"UPDATE", "appointment">>,
     delete_appointment |-> <<"DELETE", "appointment">>,
     confirm_appointment |-> <<"CONFIRM", "appointment">>,
     cancel_appointment |-> <<"CANCEL", "appointment">>,
     complete_appointment |-> <<"COMPLETE", "appointment">>,
     create_bill |-> <<"CREATE", "bill">>,
     update_bill |-> <<"UPDATE", "bill">>,
     delete_bill |-> <<"DELETE", "bill">>,
     mark_bill_as_paid |-> <<"MARK_PAID", "bill">>]

TableOf(type, ps, ds, as, bs) ==
    CASE type = "patient" -> ps
      [] type = "doctor" -> ds
      [] type = "appointment" -> as
      [] type = "bill" -> bs

C20_OneAuditEntryPerMutation ==
    [][LET stores == <<patients, doctors, appointments, bills, bill_items>>
           entry == audit'[Len(audit')]
           table == TableOf(entry.entity_type, patients', doctors',
                            appointments', bills')
       IN  /\ last'.code >= 400 => (audit' = audit /\ stores' = stores)
           /\ (stores' # stores) => last'.code \in {200, 201}
           /\ last'.code \in {200, 201} =>
                /\ audit' = Append(audit, entry)
                /\ <<entry.action, entry.entity_type>> = AuditedAs[last'.op]
                /\ entry.entity_id = last'.id
                /\ IF entry.action = "DELETE"
                   THEN entry.entity_id \notin DOMAIN table
                   ELSE entry.entity_id \in DOMAIN table]_vars

C20_Witness ==
    /\ last = Response("update_doctor_status", 1, 200)
    /\ doctors[1].status = "On Leave"
    /\ audit # <<>>
    /\ audit[Len(audit)].action = "UPDATE_STATUS"
    /\ \E i \in DOMAIN audit : audit[i].action = "DELETE"

(* C21: the audit entry of a mutation holds the entity's state just before *)
(* the mutation as old snapshot and its state just after as new snapshot;  *)
(* the entries of confirm, cancel and complete hold as old status the      *)
(* status the appointment had just before the action.                      *)
C21_AuditSnapshots ==
    [][\A i \in DOMAIN appointments :
         (last'.id = i /\ last'.code = 200 /\ Len(audit') = Len(audit) + 1) =>
           LET entry == audit'[Len(audit')]
           IN  /\ last'.op \in {"confirm_appointment", "cancel_appointment",
                                "complete_appointment"}
                     => /\ entry.old_data.status = appointments[i].status
                        /\ entry.new_data.status = appointments'[i].status
               /\ last'.op = "update_appointment"
                     => /\ entry.old_data = appointments[i]
                        /\ entry.new_data = appointments'[i]
               /\ last'.op = "delete_appointment"
                     => entry.old_data = appointments[i]]_vars

(* C22: the audit log is append-only: across every step, deletes of the    *)
(* audited entities included, every audit entry present before the step is *)
(* still present, at the same position and unchanged, after it.            *)
C22_AuditAppendOnly ==
    [][/\ Len(audit') >= Len(audit)
       /\ \A k \in 1..Len(audit) : audit'[k] = audit[k]]_vars

(* An entity was deleted and the entries written about it earlier remain.  *)
C22_Witness ==
    \E k \in 1..Len(audit) : \E j \in 1..Len(audit) :
        /\ j < k
        /\ audit[k].action = "DELETE"
        /\ audit[j].entity_type = audit[k].entity_type
        /\ audit[j].entity_id = audit[k].entity_id
        /\ audit[j].action \in {"CREATE", "UPDATE"}

(* the step is a request whose audit write raised *)
AuditFailed == "details" \in DOMAIN last'

(* C23: when the audit write fails after the mutation was committed, the   *)
(* mutation stays in the store: the entity created is stored, the entity   *)
(* deleted is gone, the bill marked is paid, and no other record changes.  *)
C23_MutationSurvivesAuditFailure ==
    [][AuditFailed =>
         LET id == last'.id
         IN  /\ last'.op = "create_appointment" =>
                  /\ id \notin DOMAIN appointments
                  /\ \E data \in FailingPayloads :
                        appointments' = Put(appointments, id,
                            Appointment_create(DOMAIN appointments, data).row)
                  /\ appointments'[id].status = "pending"
                  /\ UNCHANGED <<patients, doctors, bills, bill_items>>
             /\ last'.op = "delete_appointment" =>
                  /\ id \in DOMAIN appointments
                  /\ appointments' = Remove(appointments, id)
                  /\ UNCHANGED <<patients, doctors, bills, bill_items>>
             /\ last'.op = "mark_bill_as_paid" =>
                  /\ bills[id].status # "paid"
                  /\ bills' = [bills EXCEPT ![id].status = "paid",
                                 ![id].payment_method = bills'[id].payment_method]
                  /\ UNCHANGED <<patients, doctors, appointments, bill_items>>]_vars

(* a bill is paid although the audit entry of the payment was never        *)
(* written, and an appointment is stored without its CREATE entry          *)
C23_Witness ==
    /\ "details" \in DOMAIN last
    /\ last.op = "mark_bill_as_paid"
    /\ bills[last.id].status = "paid"
    /\ \A k \in DOMAIN audit : audit[k].action # "MARK_PAID"
    /\ \E a \in DOMAIN appointments :
          \A k \in DOMAIN audit :
             ~(audit[k].entity_type = "appointment" /\ audit[k].entity_id = a)

(* C24: when the audit write fails after the mutation was committed, the   *)
(* request is still answered with success (200 or 201), never an error.    *)
C24_AuditFailureStillSuccess ==
    [][AuditFailed => last'.code \in {200, 201}]_vars

(* C30: the body answered to a request that fails with an internal storage *)
(* error is the same for every text of that error, whatever the query      *)
(* parameters of the request.                                              *)
C30_ErrorTextNotDisclosed ==
    [][AuditFailed =>
         \A e \in ErrorTexts :
            [code |-> last'.code, error |-> last'.error, details |-> last'.details]
               = handle_error(e, 500, "An error occurred", last'.args)]_vars

(* C25: a request rejected as not found (404) or as a conflict, a          *)
(* validation failure or a blocked delete (400) leaves every patient,      *)
(* doctor, appointment, bill, bill item and audit entry as it was.         *)
C25_RejectionChangesNothing ==
    [][last'.code \in {400, 404} =>
         /\ patients' = patients
         /\ doctors' = doctors
         /\ appointments' = appointments
         /\ bills' = bills
         /\ bill_items' = bill_items
         /\ audit' = audit]_vars

(* an update of an appointment was refused because its slot is taken, in a *)
(* store that holds records of every kind                                  *)
C25_Witness ==
    /\ last.op = "update_appointment"
    /\ last.code = 400
    /\ last.id \in DOMAIN appointments
    /\ patients # EmptyTable /\ doctors # EmptyTable /\ bills # EmptyTable
    /\ audit # <<>>

(* C26: an update never changes an immutable column, whatever the payload  *)
(* holds: id and created_at of every record, patient_id and doctor_id of   *)
(* an appointment and patient_id of a bill keep their values.              *)
Kept(table, table_after, columns) ==
    \A id \in DOMAIN table :
        /\ id \in DOMAIN table_after
        /\ \A key \in columns : table_after[id][key] = table[id][key]

C26_ImmutableFieldsKept ==
    [][/\ Kept(patients, patients', {"id", "created_at"})
       /\ Kept(doctors, doctors', {"id", "created_at"})
       /\ Kept(appointments, appointments',
               {"id", "created_at", "patient_id", "doctor_id"})
       /\ Kept(bills, bills', {"id", "created_at", "patient_id"})]_vars

(* a bill update whose payload named another patient, id and creation time *)
(* was applied: the notes changed, the guarded columns did not             *)
C26_Witness ==
    /\ last.op = "Bill.update"
    /\ reqs # <<>>
    /\ {"id", "created_at", "patient_id", "notes"} \subseteq DOMAIN reqs[1].data
    /\ reqs[1].data.patient_id # bills[1].patient_id
    /\ bills[1].notes = 2
    /\ bills[1].updated_at \in Clock

(* C27: every appointment and every bill has status pending right after a  *)
(* create request answered 201, whatever the create payload holds.         *)
C27_CreatedPending ==
    [][/\ (last'.op = "create_appointment" /\ last'.code = 201)
            => appointments'[last'.id].status = "pending"
       /\ (last'.op = "create_bill" /\ last'.code = 201)
            => bills'[last'.id].status = "pending"]_vars

C29_OutstandingIsUnpaid ==
    \A per_page \in PerPage :
        LET pages == 1..(Cardinality(DOMAIN bills) + 1)
            listed == UNION {{get_outstanding_bills(page, per_page)[k] :
                                 k \in DOMAIN get_outstanding_bills(page, per_page)} :
                             page \in pages}
        IN  /\ listed = {b \in DOMAIN bills :
                            bills[b].status \in {"pending", "partial"}}
            /\ listed = Bill_get_outstanding_bills

(* C31: a completed appointment is terminal for the lifecycle actions: a   *)
(* confirm, cancel or complete request on it is rejected and its status    *)
(* stays completed.                                                        *)
C31_CompletedIsTerminal ==
    [][\A i \in DOMAIN appointments :
         ( /\ appointments[i].status = "completed"
           /\ last'.id = i
           /\ last'.op \in {"confirm_appointment", "cancel_appointment",
                            "complete_appointment"} )
         => /\ last'.code = 400
            /\ i \in DOMAIN appointments'
            /\ appointments'[i].status = "completed"]_vars

(* C32: for an existing patient and any doctor, date and time, the         *)
(* check-availability endpoint answers available = true exactly when the   *)
(* create-appointment request for them issued next is answered 201; a      *)
(* missing doctor gives 404 in both.                                       *)
C32_AvailableIffCreateSucceeds ==
    [][\A data \in SlotRequests :
         (data.patient_id \in DOMAIN patients /\ create_appointment(data))
         => LET answer == check_availability(data.doctor_id, data.date, data.time)
            IN  IF answer.code = 404
                THEN last'.code = 404
                ELSE /\ answer.code = 200
                     /\ (answer.available = TRUE) <=> (last'.code = 201)]_vars

(* C33: the availability check of update-appointment counts the            *)
(* appointment being updated: an update of a pending or confirmed          *)
(* appointment whose payload holds date, time or doctor_id, each with the  *)
(* appointment's own value, is answered 400 and changes nothing; the same  *)
(* payload without those keys is accepted.                                 *)
C33_UpdateBlockedByItself ==
    [][\A i \in DOMAIN appointments, data \in RescheduleUpdates :
         LET own == appointments[i]
             keys == (data.date # 0 \/ data.time # 0 \/ data.doctor_id # 0)
             same == /\ data.date \in {0, own.date}
                     /\ data.time \in {0, own.time}
                     /\ data.doctor_id \in {0, own.doctor_id}
         IN  (Active(i) /\ update_appointment(i, data)) =>
               /\ (keys /\ same) =>
                    /\ last' = Response("update_appointment", i, 400)
                    /\ UNCHANGED <<patients, doctors, appointments, bills,
                                   bill_items, audit>>
               /\ ~keys =>
                    /\ last' = Response("update_appointment", i, 200)
                    /\ appointments'[i] = Appointment_update(own, data)]_vars

(* the only stored appointment, pending or confirmed, was refused an       *)
(* update: the slot its request asked for is held by no other appointment  *)
C33_Witness ==
    /\ last = Response("update_appointment", 1, 400)
    /\ DOMAIN appointments = {1}
    /\ Active(1)
    /\ \E k \in DOMAIN audit :
          audit[k].action = "UPDATE" /\ audit[k].entity_type = "appointment"

(* C34 as stated: an update-bill request answered 200 that holds items and *)
(* no tax key stores tax = (new subtotal - discount) * (tax amount stored  *)
(* before) / 100, exactly.                                                 *)
ItemsWithoutTax(id, data) ==
    /\ "items" \in data.has
    /\ "tax" \notin data.has
    /\ update_bill(id, data)
    /\ last'.code = 200

Updated(bill, data) ==
    IF \/ bill.row.status = "paid"
       \/ (Get(data, "appointment_id", 0) # 0
             /\ data.appointment_id \notin DOMAIN appointments)
       \/ Bill_update_raises(data)
    THEN bill
    ELSE Bill_update(bill.row, bill.items, data)

C35_UpdateBillIdempotent ==
    \A id \in DOMAIN bills, data \in BillUpdates :
        bills[id].status # "paid" =>
          LET once == Updated([row |-> bills[id], items |-> bill_items[id]], data)
              twice == Updated(once, data)
          IN  /\ twice.row.subtotal = once.row.subtotal
              /\ twice.row.discount = once.row.discount
              /\ twice.row.tax = once.row.tax
              /\ twice.row.total_amount = once.row.total_amount
              /\ twice.row.status = once.row.status
              /\ twice.items = once.items

(* C36 as stated: after the record with the highest id of a type is        *)
(* deleted, the next create of that type is assigned that same id again,   *)
(* and the audit entries of both records carry the same entity id.         *)
(* the step is the first create of an appointment after the delete of      *)
(* appointment d, whose id was higher than every id that remains           *)
CreateAfterDeleteOfHighest(d) ==
    /\ audit # <<>>
    /\ audit[Len(audit)].action = "DELETE"
    /\ audit[Len(audit)].entity_type = "appointment"
    /\ audit[Len(audit)].entity_id = d
    /\ \A k \in DOMAIN appointments : k < d
    /\ last'.op = "create_appointment"
    /\ last'.code = 201

C36_HighestIdReused ==
    [][\A d \in IdSamples :
         CreateAfterDeleteOfHighest(d) =>
           /\ last'.id = d
           /\ audit'[Len(audit')].entity_id = audit[Len(audit)].entity_id]_vars

(* C36, amended: the create is assigned the successor of the id that sorts *)
(* last among the stored ones (1 when none is stored), stored under no     *)
(* other record; this is the deleted id again exactly when the deleted id  *)
(* was that successor, and then the DELETE entry of the old record and the *)
(* CREATE entry of the new one carry the same entity id.                   *)
C36_SuccessorOfLastStored ==
    [][\A d \in IdSamples :
         CreateAfterDeleteOfHighest(d) =>
           LET entry == audit'[Len(audit')]
           IN  /\ last'.id = NewNum(DOMAIN appointments)
               /\ last'.id \notin DOMAIN appointments
               /\ DOMAIN appointments' = DOMAIN appointments \cup {last'.id}
               /\ entry.action = "CREATE"
               /\ entry.entity_id = last'.id
               /\ (last'.id = d) <=> (d = NewNum(DOMAIN appointments))
               /\ (last'.id = d) => entry.entity_id = audit[Len(audit)].entity_id]_vars

(* appointment 2 was deleted and the next appointment created is stored    *)
(* under id 2: two audit entries of two records with one entity id         *)
C36_Witness ==
    /\ Len(audit) = 2
    /\ audit[1].action = "DELETE" /\ audit[2].action = "CREATE"
    /\ audit[1].entity_type = "appointment" /\ audit[2].entity_type = "appointment"
    /\ audit[1].entity_id = 2 /\ audit[2].entity_id = 2
    /\ DOMAIN appointments = {1, 2}
    /\ last = Response("create_appointment", 2, 201)

(* C37: when update-bill or delete-bill requests interleave with a         *)
(* mark-paid request on the same bill, then once the mark-paid write has   *)
(* committed no field and no item of the bill changes and the bill is not  *)
(* deleted.                                                                *)
C37_PaidBillImmutableInterleaved ==
    [][\A b \in DOMAIN bills :
         bills[b].status = "paid" =>
           /\ b \in DOMAIN bills'
           /\ bills'[b] = bills[b]
           /\ bill_items'[b] = bill_items[b]]_vars

(* C38: in every state reached by requests handled one at a time, every    *)
(* appointment references a stored patient and a stored doctor, every bill *)
(* references a stored patient and, when its appointment_id is set, a      *)
(* stored appointment, and every bill item references a stored bill.       *)
C38_ReferentialIntegrity ==
    /\ \A a \in DOMAIN appointments :
         /\ appointments[a].patient_id \in DOMAIN patients
         /\ appointments[a].doctor_id \in DOMAIN doctors
    /\ \A b \in DOMAIN bills :
         /\ bills[b].patient_id \in DOMAIN patients
         /\ bills[b].appointment_id # 0 =>
              bills[b].appointment_id \in DOMAIN appointments
    /\ DOMAIN bill_items \subseteq DOMAIN bills

(* a bill that references an appointment is stored and the delete of the   *)
(* appointment has been refused                                            *)
C38_Witness ==
    /\ \E b \in DOMAIN bills : bills[b].appointment_id = 1
    /\ 1 \in DOMAIN appointments
    /\ last = Response("delete_appointment", 1, 400)

(* C39: billing statistics requested with a start and an end date give as  *)
(* total_revenue the sum of total_amount over the paid bills inside the    *)
(* range and as pending_amount the sum over the pending and partial bills  *)
(* inside the range, the set of bills the status_distribution counts.      *)
C39_SumsOverDateRange ==
    (/\ last.op = "get_billing_statistics"
     /\ last.args.start_date # 0
     /\ last.args.end_date # 0) =>
        LET range == {b \in DOMAIN bills :
                         /\ bills[b].date >= Midnight(last.args.start_date)
                         /\ bills[b].date <= Midnight(last.args.end_date)}
        IN  /\ last.statistics.total_revenue =
                   func_sum({b \in range : bills[b].status = "paid"})
            /\ last.statistics.pending_amount =
                   func_sum({b \in range :
                                bills[b].status \in {"pending", "partial"}})
            /\ last.statistics.status_distribution.paid =
                   Cardinality({b \in range : bills[b].status = "paid"})

====
